---- MODULE Spec2Model ----
(***************************************************************************)
(* Scheduling and durable-orchestration pipeline of the stock-research     *)
(* app: recurrence engine, due-schedule query, timer-driven scanner,       *)
(* research orchestrator and report synthesis.                             *)
(*                                                                         *)
(* Time.  A datetime is an integer number of seconds since Monday          *)
(* 2024-01-01T00:00:00+00:00.  An ISO-8601 string of second precision is   *)
(* the tuple <<day, hour, minute, second>> of its fixed-width fields, and  *)
(* string comparison is the lexicographic comparison of those fields.      *)
(* An Optional value is <<>> (None) or <<v>>.                              *)
(***************************************************************************)
EXTENDS Integers, Sequences, FiniteSets, TLC

VARIABLES
    recurrence,   \* recurrence engine: the Recurrence passed to compute_next_run_utc
    from_dt,      \* recurrence engine: the from_dt argument (seconds)
    next_iso,     \* recurrence engine: the returned ISO string, None before the call
    use_cosmos,   \* USE_COSMOS: the backend chosen when the process starts
    schedules,    \* document store: the schedules collection, in insertion order
    q_now,        \* due query: the now_iso argument
    q_limit,      \* due query: the limit argument
    due_result,   \* due query: the returned list, None before the call
    synth_in,     \* synthesis: arguments of synthesize_report and the state of each backend
    synth_out,    \* synthesis: how the call ended, None before the call
    poll,         \* synthesis: the polling loop under way for an agent or assistant run
    failing_ids,  \* environment: the schedules whose Run cannot be created, at any sweep
    clock,        \* the wall clock, datetime.now(timezone.utc), in seconds
    next_id,      \* the next fresh id (uuid4)
    runs,         \* document store: the runs collection
    orchs,        \* the durable orchestration instances started with start_new
    sweep,        \* due_scheduler.main: its position and local variables
    scan_log,     \* what the current sweep did for each due schedule it took up
    reports,      \* document store: the reports collection, in insertion order
    blobs,        \* object store: the paths of the blobs in the reports container
    response,     \* the delete handlers: the last request and its answer, None before
    tracked,      \* document store: the tracked_stocks collection, in insertion order
    op_call,      \* the store or activity call under way: its name and arguments
    op_result,    \* what that call returned, None before it returns
    writers,      \* local file store: the copy each instance loaded and has yet to save
    twin          \* the same requests served by a deployment on each backend: their stores

recVars == <<recurrence, from_dt, next_iso>>
dueVars == <<q_now, q_limit, due_result>>
storeVars == <<use_cosmos, schedules>>
synthVars == <<synth_in, synth_out, poll, failing_ids>>
scanVars == <<clock, next_id, runs, orchs, sweep, scan_log>>
reportVars == <<reports, blobs, response>>
opVars == <<tracked, op_call, op_result, writers, twin>>
vars == <<recVars, dueVars, storeVars, synthVars, scanVars, reportVars, opVars>>

None == <<>>
Some(v) == <<v>>

Max(a, b) == IF a >= b THEN a ELSE b
Min(a, b) == IF a <= b THEN a ELSE b

(***************************************************************************)
(* datetime arithmetic                                                     *)
(***************************************************************************)
SecondsPerMinute == 60
SecondsPerHour == 3600
SecondsPerDay == 86400
DaysPerWeek == 7
HoursPerDay == 24

\* datetime.weekday(): Monday = 0 .. Sunday = 6
weekday(dt) == (dt \div SecondsPerDay) % DaysPerWeek

\* now_iso(dt): dt.replace(microsecond=0).isoformat()
now_iso(dt) ==
    << dt \div SecondsPerDay,
       (dt % SecondsPerDay) \div SecondsPerHour,
       (dt % SecondsPerHour) \div SecondsPerMinute,
       dt % SecondsPerMinute >>

\* Python's str <= str on two ISO strings of the same layout
IsoLeq(a, b) ==
    \/ a[1] < b[1]
    \/ a[1] = b[1] /\ a[2] < b[2]
    \/ a[1] = b[1] /\ a[2] = b[2] /\ a[3] < b[3]
    \/ a[1] = b[1] /\ a[2] = b[2] /\ a[3] = b[3] /\ a[4] <= b[4]

IsoLess(a, b) == IsoLeq(a, b) /\ a # b

\* the instant an ISO string denotes
IsoSeconds(s) ==
    s[1] * SecondsPerDay + s[2] * SecondsPerHour + s[3] * SecondsPerMinute + s[4]

(***************************************************************************)
(* Recurrence engine: compute_next_run_utc                                 *)
(***************************************************************************)
\* base = from_dt.replace(second=0, microsecond=0)
TruncateToMinute(dt) == dt - (dt % SecondsPerMinute)

\* candidate.replace(hour=hour, minute=0) on a datetime whose seconds are 0
ReplaceHour(dt, hour) == (dt \div SecondsPerDay) * SecondsPerDay + hour * SecondsPerHour

\* hour = 0 if recurrence.hour is None else max(0, min(23, recurrence.hour))
ClampHour(h) == IF h = None THEN 0 ELSE Max(0, Min(HoursPerDay - 1, h[1]))

\* dow = 0 if recurrence.dow is None else max(0, min(6, recurrence.dow))
ClampDow(d) == IF d = None THEN 0 ELSE Max(0, Min(DaysPerWeek - 1, d[1]))

\* every hourly recurrence runs once a day
HoursIntervalAlwaysDay(i) == HoursPerDay

\* interval = max(1, (recurrence.interval or 24))
HoursInterval(i) == Max(1, IF i = None \/ i[1] = 0 THEN HoursPerDay ELSE i[1])

\* a candidate that has already elapsed: candidate < base (ties kept)
CandidateElapsedTieKept(candidate, base) == candidate < base

\* `if candidate <= base:` the candidate is not a valid next run
CandidateElapsed(candidate, base) == candidate <= base

\* the candidate of today is returned although it has elapsed
DailyNextSameDay(rec, base) == ReplaceHour(base, ClampHour(rec.hour))

\* the candidate is not moved to the target weekday
WeeklyNextSameDay(rec, base) ==
    LET candidate == ReplaceHour(base, ClampHour(rec.hour))
    IN  IF candidate <= base THEN candidate + DaysPerWeek * SecondsPerDay ELSE candidate

DailyNext(rec, base) ==
    LET candidate == ReplaceHour(base, ClampHour(rec.hour))
    IN  IF CandidateElapsed(candidate, base)
        THEN candidate + SecondsPerDay
        ELSE candidate

WeeklyNext(rec, base) ==
    LET days_ahead == (ClampDow(rec.dow) - weekday(base)) % DaysPerWeek
        candidate  == ReplaceHour(base + days_ahead * SecondsPerDay, ClampHour(rec.hour))
    IN  IF CandidateElapsed(candidate, base)
        THEN candidate + DaysPerWeek * SecondsPerDay
        ELSE candidate

compute_next_run_utc(rec, dt) ==
    LET base == TruncateToMinute(dt)
    IN  CASE rec.type = "hours"  -> now_iso(base + HoursInterval(rec.interval) * SecondsPerHour)
          [] rec.type = "daily"  -> now_iso(DailyNext(rec, base))
          [] rec.type = "weekly" -> now_iso(WeeklyNext(rec, base))
          [] OTHER               -> now_iso(base + SecondsPerDay)

(***************************************************************************)
(* Inputs of the recurrence engine                                         *)
(***************************************************************************)
MaxDay == 7

OptHours == {None, Some(-1), Some(0), Some(9), Some(23), Some(24)}
OptDows == {None, Some(-1), Some(0), Some(3), Some(6), Some(7)}
OptIntervals == {None, Some(-1), Some(0), Some(1), Some(2)}

Rec(t, h, d, i) == [type |-> t, hour |-> h, dow |-> d, interval |-> i]

Recurrences ==
    {Rec("hours", None, None, i) : i \in OptIntervals}
    \cup {Rec("daily", h, None, None) : h \in OptHours}
    \cup {Rec("weekly", h, d, None) : h \in OptHours, d \in OptDows}
    \cup {Rec("daily", Some(9), None, Some(i)) : i \in {1, 2}}
    \cup {Rec("weekly", Some(9), Some(3), Some(i)) : i \in {1, 2}}
    \cup {Rec("monthly", None, None, None)}

Instants ==
    {d * SecondsPerDay + h * SecondsPerHour + m * SecondsPerMinute + s :
        d \in 0..MaxDay, h \in {0, 8, 9, 10, 23}, m \in {0, 59}, s \in {0, 59}}

IdleRecurrence ==
    /\ recurrence = Rec("daily", None, None, None)
    /\ from_dt = 0
    /\ next_iso = None

IdleDueQuery ==
    /\ q_now = now_iso(0)
    /\ q_limit = 0
    /\ due_result = None

EmptyStore ==
    /\ use_cosmos = FALSE
    /\ schedules = <<>>

IdleSynth ==
    /\ synth_in = None
    /\ synth_out = None
    /\ poll = None
    /\ failing_ids = {}

IdleSweep == [pc |-> "idle", now |-> now_iso(0), result |-> <<>>, due |-> <<>>,
              sched |-> None, run_doc |-> None]

IdleScanner ==
    /\ clock = 0
    /\ next_id = 1
    /\ runs = <<>>
    /\ orchs = <<>>
    /\ sweep = IdleSweep
    /\ scan_log = <<>>

IdleReports ==
    /\ reports = <<>>
    /\ blobs = {}
    /\ response = None

IdleOps ==
    /\ tracked = <<>>
    /\ op_call = None
    /\ op_result = None
    /\ writers = <<>>
    /\ twin = None

InitRecurrence ==
    /\ recurrence \in Recurrences
    /\ from_dt \in Instants
    /\ next_iso = None
    /\ IdleDueQuery
    /\ EmptyStore
    /\ IdleSynth
    /\ IdleScanner
    /\ IdleReports
    /\ IdleOps

ComputeNextRun ==
    /\ next_iso = None
    /\ next_iso' = compute_next_run_utc(recurrence, from_dt)
    /\ UNCHANGED <<recurrence, from_dt, dueVars, storeVars, synthVars, scanVars, reportVars, opVars>>

NextRecurrence == ComputeNextRun

SpecRecurrence == InitRecurrence /\ [][NextRecurrence]_vars

\* t := compute_next_run_utc(recurrence, t): the call is made again from its own
\* output, parsed back to a datetime
AdvanceFromOutput ==
    /\ next_iso # None
    /\ next_iso[1] <= MaxDay + 1
    /\ from_dt' = IsoSeconds(next_iso)
    /\ next_iso' = compute_next_run_utc(recurrence, from_dt')
    /\ UNCHANGED <<recurrence, dueVars, storeVars, synthVars, scanVars, reportVars, opVars>>

NextAdvance == ComputeNextRun \/ AdvanceFromOutput

SpecAdvance == InitRecurrence /\ [][NextAdvance]_vars

\* C1: whatever the recurrence and the instant `now`, the timestamp returned by
\* compute_next_run_utc is strictly greater than `now` (never `now` or earlier).
NextRunStrictlyAfterNow ==
    next_iso # None => IsoLess(now_iso(from_dt), next_iso)

\* a daily recurrence evaluated exactly at its hour:00:00, answered with the next day
NextRunTieWitness ==
    /\ next_iso # None
    /\ recurrence.type = "daily"
    /\ from_dt = ReplaceHour(from_dt, ClampHour(recurrence.hour))
    /\ IsoSeconds(next_iso) = from_dt + SecondsPerDay

(***************************************************************************)
(* Document store: schedules and the due query                             *)
(***************************************************************************)
EmailSettings(to, attachPdf) == [to |-> to, attachPdf |-> attachPdf]

ScheduleDoc(id, userId, symbols, prompt, rec, email, active, nextRunAt) ==
    [id |-> id, userId |-> userId, symbols |-> symbols, prompt |-> prompt,
     recurrence |-> rec, email |-> email, active |-> active, nextRunAt |-> nextRunAt]

\* a filter that forgets the active flag
IsDueIgnoringActive(s, now) ==
    /\ s.nextRunAt # None
    /\ IsoLeq(s.nextRunAt[1], now)

\* the local filter: active is truthy, nextRunAt is truthy, nra <= now_iso
\* (the Cosmos WHERE clause: c.active = true AND c.nextRunAt != null AND c.nextRunAt <= @now)
IsDue(s, now) ==
    /\ s.active
    /\ s.nextRunAt # None
    /\ IsoLeq(s.nextRunAt[1], now)

\* the loop over db["schedules"] that appends the due ones, in store order
RECURSIVE FilterDue(_, _)
FilterDue(docs, now) ==
    IF docs = <<>> THEN <<>>
    ELSE IF IsDue(Head(docs), now)
         THEN <<Head(docs)>> \o FilterDue(Tail(docs), now)
         ELSE FilterDue(Tail(docs), now)

\* list.sort(key=nextRunAt) is stable: an element goes after the elements whose
\* key is not greater
RECURSIVE InsertByNextRun(_, _)
InsertByNextRun(sorted, s) ==
    IF sorted = <<>> THEN <<s>>
    ELSE IF IsoLeq(Head(sorted).nextRunAt[1], s.nextRunAt[1])
         THEN <<Head(sorted)>> \o InsertByNextRun(Tail(sorted), s)
         ELSE <<s>> \o sorted

RECURSIVE SortByNextRun(_)
SortByNextRun(docs) ==
    IF docs = <<>> THEN <<>>
    ELSE InsertByNextRun(SortByNextRun(SubSeq(docs, 1, Len(docs) - 1)), docs[Len(docs)])

\* due[:limit], limit >= 0
Take(seq, limit) == SubSeq(seq, 1, Min(limit, Len(seq)))

\* list_due_schedules, local file store
list_due_schedules_local(docs, now, limit) ==
    Take(SortByNextRun(FilterDue(docs, now)), limit)

\* list_due_schedules, Cosmos: every answer the query can give; ORDER BY leaves
\* the order of equal nextRunAt values open
list_due_schedules_cosmos(docs, now, limit) ==
    LET dueIdx == {i \in 1..Len(docs) : IsDue(docs[i], now)}
        n      == Cardinality(dueIdx)
        orders == {p \in [1..n -> dueIdx] :
                     /\ \A i, j \in 1..n : i # j => p[i] # p[j]
                     /\ \A i \in 1..n : i < n =>
                            IsoLeq(docs[p[i]].nextRunAt[1], docs[p[i + 1]].nextRunAt[1])}
    IN  {Take([i \in 1..n |-> docs[p[i]]], limit) : p \in orders}

(***************************************************************************)
(* Inputs of the due query                                                 *)
(***************************************************************************)
MaxStore == 3
MaxLimit == 3

NineOClock == 9 * SecondsPerHour

DueTimes == {NineOClock, NineOClock + SecondsPerHour, SecondsPerDay}
QueryTimes == {NineOClock, NineOClock + SecondsPerHour - 1, SecondsPerDay + 1}

QueryDoc(i, active, nextRunAt) ==
    ScheduleDoc(i, "u1", <<"AAPL">>, "", Rec("daily", Some(9), None, None),
                EmailSettings(<<>>, FALSE), active, nextRunAt)

QueryStores ==
    UNION {
        {[i \in 1..n |-> QueryDoc(i, a[i], t[i])] :
            a \in [1..n -> BOOLEAN],
            t \in [1..n -> {None} \cup {Some(now_iso(x)) : x \in DueTimes}]}
        : n \in 0..MaxStore}

InitDueQuery ==
    /\ use_cosmos \in BOOLEAN
    /\ schedules \in QueryStores
    /\ q_now \in {now_iso(x) : x \in QueryTimes}
    /\ q_limit \in 0..MaxLimit
    /\ due_result = None
    /\ IdleRecurrence
    /\ IdleSynth
    /\ IdleScanner
    /\ IdleReports
    /\ IdleOps

ListDueLocal ==
    /\ ~use_cosmos
    /\ due_result = None
    /\ due_result' = Some(list_due_schedules_local(schedules, q_now, q_limit))
    /\ UNCHANGED <<q_now, q_limit, storeVars, recVars, synthVars, scanVars, reportVars, opVars>>

ListDueCosmos ==
    /\ use_cosmos
    /\ due_result = None
    /\ \E r \in list_due_schedules_cosmos(schedules, q_now, q_limit) :
            due_result' = Some(r)
    /\ UNCHANGED <<q_now, q_limit, storeVars, recVars, synthVars, scanVars, reportVars, opVars>>

NextDueQuery == ListDueLocal \/ ListDueCosmos

SpecDueQuery == InitDueQuery /\ [][NextDueQuery]_vars

StoreDocs == {schedules[i] : i \in 1..Len(schedules)}

DueDocs == {s \in StoreDocs : s.active /\ s.nextRunAt # None /\ IsoLeq(s.nextRunAt[1], q_now)}

Raised == [raised |-> TRUE, value |-> None]
Returned(v) == [raised |-> FALSE, value |-> v]

BackendStates == {"unconfigured", "fails", "empty", "ok"}

\* f"Deep Research Report: {', '.join(symbols) or 'Prompted'}"
DefaultTitle(symbols) == <<"Deep Research Report: ", IF symbols = <<>> THEN <<"Prompted">> ELSE symbols>>

\* the citations built from the fetched sources: one per source with a URL
RECURSIVE SourceCitations(_)
SourceCitations(sources_per_symbol) ==
    IF sources_per_symbol = <<>> THEN <<>>
    ELSE Head(sources_per_symbol).sources \o SourceCitations(Tail(sources_per_symbol))

\* {"title": title, "markdown": md, "html": _md.render(md), "citations": citations}
ModelReport(backend, symbols, sources_per_symbol) ==
    [title |-> DefaultTitle(symbols),
     markdown |-> <<backend, "model text">>,
     html |-> <<"<p>", backend, "model text", "</p>">>,
     citations |-> SourceCitations(sources_per_symbol)]

RECURSIVE SourceSections(_)
SourceSections(sources_per_symbol) ==
    IF sources_per_symbol = <<>> THEN <<>>
    ELSE <<"## ", Head(sources_per_symbol).symbol, " - Recent Sources">>
         \o Head(sources_per_symbol).sources \o <<"">>
         \o SourceSections(Tail(sources_per_symbol))

\* _fallback_report: (title, md, citations), assembled locally
fallback_report(symbols, sources_per_symbol, user_prompt) ==
    LET title == DefaultTitle(symbols)
        citations == SourceCitations(sources_per_symbol)
    IN  [title |-> title,
         markdown |-> <<"# ">> \o title \o <<"", "## Overview", "This is a locally generated summary.">>
                      \o (IF user_prompt # None THEN <<"", "## User Prompt", user_prompt[1], "">> ELSE <<>>)
                      \o <<"">> \o SourceSections(sources_per_symbol)
                      \o (IF citations # <<>> THEN <<"## Citations">> \o citations ELSE <<>>),
         citations |-> citations]

\* _synthesize_with_deep_research: raises unless the client and the Bing connection
\* are configured, the run completes and the assistant text is not empty
synthesize_with_deep_research(in) ==
    IF in.deep = "ok"
    THEN Returned(Some(ModelReport("deep", in.symbols, in.sources)))
    ELSE Raised

\* _synthesize_with_agent: the Projects agent inside try/except, then the
\* Assistants path, whose errors propagate; raises when neither answers
synthesize_with_agent(in) ==
    IF in.agent = "ok"
    THEN Returned(Some(ModelReport("agent", in.symbols, in.sources)))
    ELSE IF in.assistant = "ok"
         THEN Returned(Some(ModelReport("assistant", in.symbols, in.sources)))
         ELSE Raised

\* the Chat Completions block of synthesize_report: returns a report, or passes
ChatCompletion(in) ==
    IF in.chat = "ok"
    THEN Returned(Some(ModelReport("chat", in.symbols, in.sources)))
    ELSE Returned(None)

\* synthesize_report: deep research when asked for, then agent/assistant when one
\* of them is configured, then chat completion; the function ends there
synthesize_report(in) ==
    LET deep == IF in.deep_research THEN synthesize_with_deep_research(in) ELSE Raised
        agentTried == in.agent # "unconfigured" \/ in.assistant # "unconfigured"
        agent == IF agentTried THEN synthesize_with_agent(in) ELSE Raised
    IN  IF ~deep.raised THEN deep
        ELSE IF ~agent.raised THEN agent
        ELSE ChatCompletion(in)

(***************************************************************************)
(* Inputs of report synthesis                                              *)
(***************************************************************************)
SourceGroups ==
    {<<>>,
     <<[symbol |-> "AAPL", sources |-> <<"https://a.example/1">>]>>,
     <<[symbol |-> "AAPL", sources |-> <<>>]>>}

SynthInputs ==
    {[symbols |-> IF g = <<>> THEN <<>> ELSE <<"AAPL">>,
      sources |-> g,
      prompt |-> IF g = <<>> THEN Some("Tech sector overview") ELSE None,
      deep_research |-> dr,
      deep |-> b[1], agent |-> b[2], assistant |-> b[3], chat |-> b[4]] :
        g \in SourceGroups, dr \in BOOLEAN, b \in [1..4 -> BackendStates]}

InitSynth ==
    /\ synth_in \in {Some(i) : i \in SynthInputs}
    /\ synth_out = None
    /\ poll = None
    /\ failing_ids = {}
    /\ IdleRecurrence
    /\ IdleDueQuery
    /\ EmptyStore
    /\ IdleScanner
    /\ IdleReports
    /\ IdleOps

SynthesizeReport ==
    /\ synth_in # None
    /\ synth_out = None
    /\ synth_out' = Some(synthesize_report(synth_in[1]))
    /\ UNCHANGED <<synth_in, poll, failing_ids, recVars, dueVars, storeVars, scanVars, reportVars, opVars>>

NextSynth == SynthesizeReport

SpecSynth == InitSynth /\ [][NextSynth]_vars

\* C6: synthesize_report never raises and always returns a well-formed
\* {title, markdown, html, citations} whose markdown is not empty, whatever the
\* deep-research flag and the state of each backend.
SynthesizeAlwaysWellFormed ==
    synth_out # None =>
        /\ ~synth_out[1].raised
        /\ synth_out[1].value # None
        /\ synth_out[1].value[1].markdown # <<>>

(***************************************************************************)
(* Schedules API and the due-schedule scanner (due_scheduler)              *)
(***************************************************************************)
DueLimit == 50

RecurrenceTypes == {"daily", "weekly", "hours"}

\* Recurrence(**d): pydantic accepts only the Literal types
RecurrenceValid(r) == r.type \in RecurrenceTypes

\* Schedule(...).model_dump() as create_schedule stores it; the Schedule model
\* has no prompt field, so a prompt given to it is not kept
ScheduleModel(id, userId, symbols, rec, email, active, nextRunAt) ==
    ScheduleDoc(id, userId, symbols, None, rec, email, active, nextRunAt)

\* Run(scheduleId, userId) as create_run stores it
RunDoc(id, scheduleId, userId) ==
    [id |-> id, scheduleId |-> scheduleId, userId |-> userId,
     status |-> "queued", durationMs |-> None, error |-> None]

\* the orchestration input; deepResearch is None when the key is absent
OrchInput(scheduleId, symbols, prompt, runId, emailTo, userId, attachPdf, deepResearch) ==
    [scheduleId |-> scheduleId, symbols |-> symbols, prompt |-> prompt, runId |-> runId,
     emailTo |-> emailTo, userId |-> userId, attachPdf |-> attachPdf,
     deepResearch |-> deepResearch]

\* sched.get("prompt") or ""
PromptOf(sched) == IF sched.prompt = None THEN "" ELSE sched.prompt[1]

\* the orch_input the scanner builds
ScannerOrchInput(sched, run_doc) ==
    OrchInput(sched.id, sched.symbols, PromptOf(sched), run_doc.id, sched.email.to,
              sched.userId, sched.email.attachPdf, None)

\* client.start_new("research_orchestrator", None, orch_input)
\* history is the durable record of the activity results, mem the orchestrator
\* function's position and locals in the host's memory, effects the activity
\* executions that took place, replayed the number of recorded results that were
\* handed back to the function without an execution (counted up to MaxReplayed)
NewInstance(input) ==
    [input |-> input, history |-> <<>>, mem |-> None, status |-> "Pending", output |-> None,
     effects |-> <<>>, replayed |-> 0]

\* the first document with this id, whoever owns it
FirstMatchAnyOwner(docs, schedule_id, user_id) ==
    LET hits == {i \in 1..Len(docs) : docs[i].id = schedule_id}
    IN  IF hits = {} THEN 0 ELSE CHOOSE i \in hits : \A j \in hits : i <= j

\* the first document with this id and owner, 0 when there is none
FirstMatch(docs, schedule_id, user_id) ==
    LET hits == {i \in 1..Len(docs) : docs[i].id = schedule_id /\ docs[i].userId = user_id}
    IN  IF hits = {} THEN 0 ELSE CHOOSE i \in hits : \A j \in hits : i <= j

\* the call also switches the schedule back on
UpdateNextRunReactivating(docs, schedule_id, user_id, next) ==
    LET k == FirstMatch(docs, schedule_id, user_id)
    IN  [i \in 1..Len(docs) |->
            IF i = k THEN [docs[i] EXCEPT !.nextRunAt = Some(next), !.active = TRUE]
            ELSE docs[i]]

\* update_schedule_next_run: the store after the call
update_schedule_next_run(docs, schedule_id, user_id, next) ==
    LET k == FirstMatch(docs, schedule_id, user_id)
    IN  [i \in 1..Len(docs) |->
            IF i = k THEN [docs[i] EXCEPT !.nextRunAt = Some(next)] ELSE docs[i]]

\* the answers list_due_schedules(now_iso, limit) can give on the active backend
list_due_schedules(docs, now, limit) ==
    IF use_cosmos
    THEN list_due_schedules_cosmos(docs, now, limit)
    ELSE {list_due_schedules_local(docs, now, limit)}

\* a next run computed from the schedule's stored nextRunAt instead of the clock
NextRunFromStoredNextRun(sched, now_dt) == IsoSeconds(sched.nextRunAt[1])

\* compute_next_run_utc(rec): from_dt is omitted, the clock is read at the call
NextRunAnchor(sched, now_dt) == now_dt

\* the update is reached although start_new raised
UpdateAfterStartNewError == "update"

\* an exception of start_new leaves the try block: the update is skipped
AfterStartNewError == "loop"

\* the sweep ends at the first error
StopAfterError(rest) == <<>>

\* `except Exception: continue`: the loop goes on with the rest of the due list
ContinueAfterError(rest) == rest

(***************************************************************************)
(* Inputs and bounds of the scanner                                        *)
(***************************************************************************)
MaxIds == 4

ScanInstants ==
    {d * SecondsPerDay + NineOClock + off : d \in {0, 1}, off \in {0, 30}}

FirstInstant == CHOOSE t \in ScanInstants : \A u \in ScanInstants : t <= u

CreateBodies ==
    {[prompt |-> "", symbols |-> <<"AAPL">>,
      recurrence |-> Rec("daily", Some(9), None, None),
      email |-> EmailSettings(<<>>, FALSE), active |-> TRUE, deepResearch |-> FALSE],
     [prompt |-> "Tech sector overview", symbols |-> <<>>,
      recurrence |-> Rec("hours", None, None, Some(1)),
      email |-> EmailSettings(<<"a@example.com">>, TRUE), active |-> TRUE,
      deepResearch |-> TRUE]}

UpdateBodies == {[recurrence |-> Rec("monthly", None, None, None)]}

InitScanner ==
    /\ use_cosmos \in BOOLEAN
    /\ schedules = <<>>
    /\ clock = FirstInstant
    /\ next_id = 1
    /\ runs = <<>>
    /\ orchs = <<>>
    /\ sweep = IdleSweep
    /\ scan_log = <<>>
    /\ IdleRecurrence
    /\ IdleDueQuery
    /\ IdleSynth
    /\ IdleReports
    /\ IdleOps

\* time passes
Tick ==
    /\ \E t \in ScanInstants : t > clock /\ clock' = t
    /\ UNCHANGED <<next_id, runs, orchs, sweep, scan_log,
                   storeVars, recVars, dueVars, synthVars, reportVars, opVars>>

\* schedules_create.main, for a body that passes validation; the prompt and the
\* deepResearch flag are handed to Schedule(...), which has no such fields
SchedulesCreate(body) ==
    /\ next_id <= MaxIds
    /\ body.prompt # "" \/ body.symbols # <<>>
    /\ RecurrenceValid(body.recurrence)
    /\ schedules' = Append(schedules,
           ScheduleModel(next_id, "u1", body.symbols, body.recurrence, body.email,
                         body.active, Some(compute_next_run_utc(body.recurrence, clock))))
    /\ next_id' = next_id + 1
    /\ UNCHANGED <<use_cosmos, clock, runs, orchs, sweep, scan_log,
                   recVars, dueVars, synthVars, reportVars, opVars>>

\* schedules_update.main: s.update(body) on the local file store
SchedulesUpdate(id, body) ==
    /\ ~use_cosmos
    /\ FirstMatch(schedules, id, "u1") # 0
    /\ schedules' = [schedules EXCEPT ![FirstMatch(schedules, id, "u1")] =
                        [@ EXCEPT !.recurrence = body.recurrence]]
    /\ schedules' # schedules
    /\ UNCHANGED <<use_cosmos, scanVars, recVars, dueVars, synthVars, reportVars, opVars>>

\* due_scheduler.main up to the loop: capture now, query the due schedules
SweepStartWith(limit) ==
    /\ sweep.pc = "idle"
    /\ \E due \in list_due_schedules(schedules, now_iso(clock), limit) :
            sweep' = [pc |-> "loop", now |-> now_iso(clock),
                      result |-> due, due |-> due, sched |-> None, run_doc |-> None]
    /\ UNCHANGED <<clock, next_id, runs, orchs, scan_log, storeVars, recVars, dueVars, synthVars, reportVars, opVars>>

\* list_due_schedules(now_iso, limit=50)
SweepStart == SweepStartWith(DueLimit)

LogEntry(sched, failed, launched, updated) ==
    [id |-> sched.id, failed |-> failed, launched |-> launched, updated |-> updated]

\* the loop takes the next due schedule and creates its Run; create_run may raise
ItemCreateRun(fail) ==
    /\ sweep.pc = "loop"
    /\ sweep.due # <<>>
    /\ next_id <= MaxIds
    /\ LET sched == Head(sweep.due)
           run_doc == RunDoc(next_id, sched.id, sched.userId)
       IN  IF fail
           THEN /\ sweep' = [sweep EXCEPT !.due = ContinueAfterError(Tail(sweep.due))]
                /\ scan_log' = Append(scan_log, LogEntry(sched, "create_run", FALSE, FALSE))
                /\ UNCHANGED <<runs, next_id>>
           ELSE /\ runs' = Append(runs, run_doc)
                /\ next_id' = next_id + 1
                /\ sweep' = [sweep EXCEPT !.pc = "start_new", !.due = Tail(sweep.due),
                                          !.sched = Some(sched), !.run_doc = Some(run_doc)]
                /\ UNCHANGED scan_log
    /\ UNCHANGED <<clock, orchs, storeVars, recVars, dueVars, synthVars, reportVars, opVars>>

\* await client.start_new(...); it may raise
ItemStartNew(fail) ==
    /\ sweep.pc = "start_new"
    /\ IF fail
       THEN /\ sweep' = [sweep EXCEPT !.pc = AfterStartNewError,
                                      !.due = ContinueAfterError(sweep.due)]
            /\ scan_log' = Append(scan_log, LogEntry(sweep.sched[1], "start_new", FALSE, FALSE))
            /\ UNCHANGED orchs
       ELSE /\ orchs' = Append(orchs, NewInstance(ScannerOrchInput(sweep.sched[1], sweep.run_doc[1])))
            /\ sweep' = [sweep EXCEPT !.pc = "update"]
            /\ UNCHANGED scan_log
    /\ UNCHANGED <<clock, next_id, runs, storeVars, recVars, dueVars, synthVars, reportVars, opVars>>

Launched(schedule_id, run_id) ==
    \E i \in 1..Len(orchs) :
        orchs[i].input.scheduleId = schedule_id /\ orchs[i].input.runId = run_id

\* Recurrence(**...), compute_next_run_utc(rec), update_schedule_next_run(...);
\* the recurrence may not parse and the store may fail
ItemUpdateNextRun(fail) ==
    /\ sweep.pc = "update"
    /\ LET sched == sweep.sched[1]
           launched == Launched(sched.id, sweep.run_doc[1].id)
           next == compute_next_run_utc(sched.recurrence, NextRunAnchor(sched, clock))
       IN  IF ~RecurrenceValid(sched.recurrence)
           THEN /\ ~fail
                /\ sweep' = [sweep EXCEPT !.pc = "loop", !.due = ContinueAfterError(sweep.due)]
                /\ scan_log' = Append(scan_log, LogEntry(sched, "recurrence", launched, FALSE))
                /\ UNCHANGED schedules
           ELSE IF fail
           THEN /\ sweep' = [sweep EXCEPT !.pc = "loop", !.due = ContinueAfterError(sweep.due)]
                /\ scan_log' = Append(scan_log, LogEntry(sched, "update", launched, FALSE))
                /\ UNCHANGED schedules
           ELSE /\ schedules' = update_schedule_next_run(schedules, sched.id, sched.userId, next)
                /\ sweep' = [sweep EXCEPT !.pc = "loop"]
                /\ scan_log' = Append(scan_log,
                       LogEntry(sched, "none", launched, FirstMatch(schedules, sched.id, sched.userId) # 0))
    /\ UNCHANGED <<use_cosmos, clock, next_id, runs, orchs, recVars, dueVars, synthVars, reportVars, opVars>>

\* the loop is over
SweepEnd ==
    /\ sweep.pc = "loop"
    /\ sweep.due = <<>>
    /\ sweep' = IdleSweep
    /\ scan_log' = <<>>
    /\ UNCHANGED <<clock, next_id, runs, orchs, storeVars, recVars, dueVars, synthVars, reportVars, opVars>>

NextScanner ==
    \/ Tick
    \/ \E body \in CreateBodies : SchedulesCreate(body)
    \/ \E id \in 1..MaxIds, body \in UpdateBodies : SchedulesUpdate(id, body)
    \/ SweepStart
    \/ \E fail \in BOOLEAN : ItemCreateRun(fail)
    \/ \E fail \in BOOLEAN : ItemStartNew(fail)
    \/ \E fail \in BOOLEAN : ItemUpdateNextRun(fail)
    \/ SweepEnd

SpecScanner == InitScanner /\ [][NextScanner]_vars

\* the scanner finished an item in this step and logged it
ItemLogged == Len(scan_log') = Len(scan_log) + 1

LastLogged == scan_log'[Len(scan_log')]

\* the stored schedule the scanner is working on, after the step
StoredAfter(sched) == schedules'[FirstMatch(schedules', sched.id, sched.userId)]

\* C2: whenever a sweep persists a new nextRunAt for a due schedule, the stored
\* value is strictly later than the `now` captured at the start of that sweep,
\* so the schedule is no longer due for that instant.
ScannerPersistsLaterThanSweepNow ==
    [][(ItemLogged /\ LastLogged.updated) =>
          /\ IsoLess(sweep.now, StoredAfter(sweep.sched[1]).nextRunAt[1])
          /\ ~IsDue(StoredAfter(sweep.sched[1]), sweep.now)]_vars

\* a schedule that was due exactly at the sweep's now (nextRunAt = now) has been
\* given a later nextRunAt by the sweep
ScannerTieAdvancedWitness ==
    /\ sweep.pc = "loop"
    /\ \E i \in 1..Len(scan_log) :
          /\ scan_log[i].updated
          /\ sweep.result[i].id = scan_log[i].id
          /\ sweep.result[i].nextRunAt[1] = sweep.now
          /\ \E k \in 1..Len(schedules) :
                /\ schedules[k].id = scan_log[i].id
                /\ IsoLess(sweep.now, schedules[k].nextRunAt[1])

\* C3: the scanner changes a schedule's nextRunAt only after the orchestration for
\* the Run of this sweep was launched; and when the update fails after the launch
\* the stored nextRunAt is unchanged, so the schedule is returned again by the
\* next due query.
LaunchBeforeNextRunPersisted ==
    [][/\ (sweep' # sweep /\ schedules' # schedules) =>
             /\ sweep.sched # None
             /\ Launched(sweep.sched[1].id, sweep.run_doc[1].id)
             /\ \A i \in 1..Len(schedules) :
                    schedules'[i] # schedules[i] => schedules[i].id = sweep.sched[1].id
       /\ (ItemLogged /\ LastLogged.failed = "update") =>
             /\ Launched(sweep.sched[1].id, sweep.run_doc[1].id)
             /\ schedules' = schedules
             /\ \A i \in 1..Len(schedules) :
                    schedules[i] = sweep.sched[1] =>
                        \A due \in list_due_schedules(schedules', now_iso(clock'), DueLimit) :
                            \E j \in 1..Len(due) : due[j] = schedules[i]]_vars

\* a schedule whose update failed after its launch in this sweep, still due, and
\* launched for the second time
RelaunchAfterFailedUpdateWitness ==
    /\ sweep.pc = "loop"
    /\ \E i \in 1..Len(scan_log) :
          /\ scan_log[i].failed = "update"
          /\ scan_log[i].launched
          /\ \E k \in 1..Len(schedules) :
                schedules[k].id = scan_log[i].id /\ IsDue(schedules[k], sweep.now)
          /\ Cardinality({j \in 1..Len(orchs) : orchs[j].input.scheduleId = scan_log[i].id}) = 2

\* C4: when the loop of a sweep is over, every schedule the due query returned
\* has been taken up, whatever failed for the others; each one that met no error
\* of its own has its Run, its orchestration and a nextRunAt later than now.
SweepIsolatesFailures ==
    (sweep.pc = "loop" /\ sweep.due = <<>>) =>
        /\ Len(scan_log) = Len(sweep.result)
        /\ \A i \in 1..Len(scan_log) :
              /\ scan_log[i].id = sweep.result[i].id
              /\ scan_log[i].failed = "none" =>
                    /\ \E r \in 1..Len(runs) :
                          /\ runs[r].scheduleId = scan_log[i].id
                          /\ Launched(scan_log[i].id, runs[r].id)
                    /\ \A k \in 1..Len(schedules) :
                          schedules[k].id = scan_log[i].id =>
                              IsoLess(sweep.now, schedules[k].nextRunAt[1])

\* a finished sweep in which the first due schedule failed and the second one
\* was fully processed
SweepIsolationWitness ==
    /\ sweep.pc = "loop"
    /\ sweep.due = <<>>
    /\ Len(sweep.result) = 2
    /\ Len(scan_log) = 2
    /\ scan_log[1].failed \in {"create_run", "start_new", "recurrence"}
    /\ scan_log[2].failed = "none"
    /\ scan_log[2].launched
    /\ scan_log[2].updated

(***************************************************************************)
(* Research orchestrator (research_orchestrator) and the handlers that     *)
(* start it on request (run_once, run_now)                                 *)
(*                                                                         *)
(* The orchestrator function is a generator: each `yield                   *)
(* context.call_activity(...)` hands an activity call to the durable       *)
(* framework and receives its result.  The framework records every result  *)
(* in the instance's history; when the function is run again from the top  *)
(* it is handed the recorded results in order and an activity is executed  *)
(* only for a call that has no recorded result.                            *)
(***************************************************************************)
\* the prompt is taken although it is empty
PromptAssumed(input) == TRUE

\* `elif prompt:`
PromptGiven(input) == input.prompt # ""

\* the number of fetch_context calls the function makes for this input
FetchCalls(input) ==
    IF input.symbols # <<>> THEN Len(input.symbols)
    ELSE IF PromptGiven(input) THEN 1
    ELSE 0

\* the locals of orchestrator_function before its first yield; k counts the
\* yields that have returned
InitialLocals == [k |-> 0, sources |-> <<>>, report |-> None, saved |-> None]

Yield(name, arg) == [kind |-> "call", name |-> name, arg |-> arg]

Return(value) == [kind |-> "return", value |-> value]

\* bool(input_.get("deepResearch", False))
DeepResearchOf(input) == input.deepResearch # None /\ input.deepResearch[1]

\* what orchestrator_function does next with locals m: the activity call it
\* yields, or the value it returns
NextCall(input, m) ==
    LET n == FetchCalls(input)
    IN  IF n = 0
        THEN Return([status |-> "no-input", reportId |-> None,
                     runId |-> input.runId, scheduleId |-> input.scheduleId])
        ELSE IF m.k < n
        THEN Yield("fetch_context",
                   IF input.symbols # <<>>
                   THEN [symbol |-> input.symbols[m.k + 1]]
                   ELSE [prompt |-> input.prompt])
        ELSE IF m.k = n
        THEN Yield("synthesize_report",
                   [symbols |-> input.symbols, sources |-> m.sources,
                    prompt |-> input.prompt, deepResearch |-> DeepResearchOf(input)])
        ELSE IF m.k = n + 1
        THEN Yield("save_report",
                   [runId |-> input.runId, scheduleId |-> input.scheduleId,
                    report |-> m.report, emailTo |-> input.emailTo,
                    userId |-> input.userId, symbols |-> input.symbols,
                    prompt |-> input.prompt, attachPdf |-> input.attachPdf])
        ELSE IF m.k = n + 2 /\ m.saved # None /\ m.saved[1].emailTo # <<>>
        THEN Yield("send_email", m.saved[1])
        ELSE Return([status |-> "ok",
                     reportId |-> IF m.saved = None THEN None ELSE Some(m.saved[1].reportId),
                     runId |-> input.runId, scheduleId |-> input.scheduleId])

\* the locals after the yield of `call` has returned `value`
Resume(m, call, value) ==
    IF call.name = "fetch_context"
    THEN [m EXCEPT !.k = @ + 1,
                   !.sources = Append(@, [symbol |-> IF "symbol" \in DOMAIN call.arg
                                                     THEN call.arg.symbol ELSE "",
                                          sources |-> value])]
    ELSE IF call.name = "synthesize_report"
    THEN [m EXCEPT !.k = @ + 1, !.report = value]
    ELSE IF call.name = "save_report"
    THEN [m EXCEPT !.k = @ + 1, !.saved = Some(value)]
    ELSE [m EXCEPT !.k = @ + 1]

\* an exception raised by an activity is dropped
ActivityErrorSwallowed(result) == FALSE

\* the function has no try/except: an exception raised by an activity leaves it
UncaughtActivityError(result) == result.raised

\* every call is executed, whatever the history holds
RecordedNever(inst, m) == FALSE

\* the call the function is making already has its result in the history
Recorded(inst, m) == m.k < Len(inst.history)

(***************************************************************************)
(* The activities, as the results their code can give                      *)
(***************************************************************************)
\* fetch_context.main: the de-duplicated sources, or the error of the search
fetch_context(arg) == {Raised, Returned(<<"https://a.example/1">>)}

\* the backends a deployment has: none, or Chat Completions only
Deployments ==
    {[deep |-> "unconfigured", agent |-> "unconfigured", assistant |-> "unconfigured", chat |-> c] :
        c \in {"unconfigured", "ok"}}

\* synthesize_report.main: _synthesize(symbols, sources, prompt or None, deep_research)
synthesize_report_activity(arg) ==
    {synthesize_report([symbols |-> arg.symbols, sources |-> arg.sources,
                        prompt |-> IF arg.prompt = "" THEN None ELSE Some(arg.prompt),
                        deep_research |-> arg.deepResearch,
                        deep |-> d.deep, agent |-> d.agent,
                        assistant |-> d.assistant, chat |-> d.chat]) : d \in Deployments}

\* save_report.main: uploads the files and stores the Report, or fails doing so;
\* `r = input.get("report") or {}` accepts a report of None
save_report(arg, report_id) ==
    {Raised,
     Returned([reportId |-> report_id,
               blobPaths |-> [prefix |-> <<arg.userId, arg.scheduleId, arg.runId>>,
                              pdf |-> arg.attachPdf],
               emailTo |-> arg.emailTo,
               title |-> IF arg.report = None THEN <<"Deep Research Report">>
                         ELSE arg.report[1].title,
               userId |-> arg.userId])}

\* x.strip() is empty
Blank(x) == x \in {"", " "}

\* [x for x in (input.get("emailTo") or []) if isinstance(x, str) and x.strip()]
RECURSIVE Recipients(_)
Recipients(emailTo) ==
    IF emailTo = <<>> THEN <<>>
    ELSE IF Blank(Head(emailTo)) THEN Recipients(Tail(emailTo))
    ELSE <<Head(emailTo)>> \o Recipients(Tail(emailTo))

\* what send_email runs in: whether ACS_CONNECTION_STRING and EMAIL_SENDER are
\* set, whether EmailClient.from_connection_string accepts the connection string,
\* whether begin_send / poller.result succeed
EmailEnvs ==
    {[acs |-> FALSE, sender |-> TRUE, client_ok |-> TRUE, send_ok |-> TRUE],
     [acs |-> TRUE, sender |-> FALSE, client_ok |-> TRUE, send_ok |-> TRUE],
     [acs |-> TRUE, sender |-> TRUE, client_ok |-> FALSE, send_ok |-> TRUE],
     [acs |-> TRUE, sender |-> TRUE, client_ok |-> TRUE, send_ok |-> FALSE],
     [acs |-> TRUE, sender |-> TRUE, client_ok |-> TRUE, send_ok |-> TRUE]}

\* the sender is not looked at
ConfiguredIgnoringSender(env) == env.acs

\* not (not Settings.ACS_CONNECTION_STRING or not Settings.EMAIL_SENDER)
Configured(env) == env.acs /\ env.sender

\* the error of the send leaves the function
SendFailureRaised(e) == Raised

\* except Exception as e: return {"sent": False, "error": str(e)}
SendFailure(e) == Returned([sent |-> FALSE, error |-> e])

Execution(result, env, service) == [result |-> result, env |-> env, service |-> service]

\* send_email.main in env: its result and the messages it handed to the email
\* service with begin_send
send_email_main(input, env) ==
    LET recipients == Recipients(input.emailTo)
        message == [to |-> recipients, subject |-> <<"[Stock Research] ", input.title>>,
                    pdf |-> input.blobPaths.pdf]
    IN  IF recipients = <<>>
        THEN Execution(Returned([sent |-> FALSE, reason |-> "no recipients"]), Some(env), <<>>)
        ELSE IF ~Configured(env)
        THEN Execution(Returned([sent |-> FALSE, reason |-> "email service not configured"]),
                       Some(env), <<>>)
        ELSE IF ~env.client_ok
        THEN Execution(Raised, Some(env), <<>>)
        ELSE IF ~env.send_ok
        THEN Execution(SendFailure("send failed"), Some(env), <<message>>)
        ELSE Execution(Returned([sent |-> TRUE]), Some(env), <<message>>)

\* send_email.main: the results it can give
send_email(saved) == {send_email_main(saved, env).result : env \in EmailEnvs}

\* the results the activity of `call` can give
Outcomes(call) ==
    IF call.name = "fetch_context" THEN fetch_context(call.arg)
    ELSE IF call.name = "synthesize_report" THEN synthesize_report_activity(call.arg)
    ELSE IF call.name = "save_report" THEN save_report(call.arg, next_id)
    ELSE send_email(call.arg)

\* the ways the activity of `call` can run
Executions(call) ==
    IF call.name = "send_email"
    THEN {send_email_main(call.arg, env) : env \in EmailEnvs}
    ELSE {Execution(result, None, <<>>) : result \in Outcomes(call)}

\* the instance after its function received `result` for `call`
AfterResult(inst, m, call, result) ==
    IF UncaughtActivityError(result)
    THEN [inst EXCEPT !.status = "Failed", !.mem = None, !.output = Some("error")]
    ELSE [inst EXCEPT !.mem = Some(Resume(m, call, result.value))]

\* orchestrator_function run from the top on the results in `results`, without
\* an interruption: the value it returns, "failed" or "suspended"
RECURSIVE RunThrough(_, _, _)
RunThrough(input, m, results) ==
    LET call == NextCall(input, m)
    IN  IF call.kind = "return" THEN call.value
        ELSE IF results = <<>> THEN "suspended"
        ELSE IF UncaughtActivityError(Head(results)) THEN "failed"
        ELSE RunThrough(input, Resume(m, call, Head(results).value), Tail(results))

(***************************************************************************)
(* Inputs and bounds of the orchestrator                                   *)
(***************************************************************************)
MaxInstances == 1
MaxReplayed == 1

RunOnceBodies ==
    {[symbols |-> <<"AAPL", "MSFT">>, prompt |-> "", emailTo |-> <<"a@example.com">>,
      attachPdf |-> TRUE, deepResearch |-> FALSE],
     [symbols |-> <<>>, prompt |-> "Tech sector overview", emailTo |-> <<" ">>,
      attachPdf |-> FALSE, deepResearch |-> TRUE],
     [symbols |-> <<>>, prompt |-> "", emailTo |-> <<>>,
      attachPdf |-> FALSE, deepResearch |-> FALSE]}

\* the store after schedules_create took the two bodies of CreateBodies
CreatedSchedules ==
    <<ScheduleModel(1, "u1", <<"AAPL">>, Rec("daily", Some(9), None, None),
                    EmailSettings(<<>>, FALSE), TRUE,
                    Some(compute_next_run_utc(Rec("daily", Some(9), None, None), FirstInstant))),
      ScheduleModel(2, "u1", <<>>, Rec("hours", None, None, Some(1)),
                    EmailSettings(<<"a@example.com">>, TRUE), TRUE,
                    Some(compute_next_run_utc(Rec("hours", None, None, Some(1)), FirstInstant)))>>

\* the bodies of the PUT requests that change a schedule's recurrence
RecurrenceChanges ==
    {[recurrence |-> Rec("hours", None, None, Some(2))],
     [recurrence |-> Rec("daily", Some(10), None, None)],
     [recurrence |-> Rec("weekly", Some(9), Some(3), None)]}

InitOrch ==
    /\ use_cosmos = FALSE
    /\ schedules = CreatedSchedules
    /\ clock = FirstInstant
    /\ next_id = Len(CreatedSchedules) + 1
    /\ runs = <<>>
    /\ orchs = <<>>
    /\ sweep = IdleSweep
    /\ scan_log = <<>>
    /\ IdleRecurrence
    /\ IdleDueQuery
    /\ IdleSynth
    /\ IdleReports
    /\ IdleOps

\* run_once.main: a body without symbols and prompt is answered with 400
RunOnce(body) ==
    /\ Len(orchs) < MaxInstances
    /\ body.symbols # <<>> \/ body.prompt # ""
    /\ LET run_doc == RunDoc(next_id, "one-off", "u1")
       IN  /\ runs' = Append(runs, run_doc)
           /\ orchs' = Append(orchs, NewInstance(
                  OrchInput("one-off", body.symbols, body.prompt, run_doc.id, body.emailTo,
                            "u1", body.attachPdf, Some(body.deepResearch))))
    /\ next_id' = next_id + 1
    /\ UNCHANGED <<clock, sweep, scan_log, storeVars, recVars, dueVars, synthVars, reportVars, opVars>>

\* run_now.main: an unknown schedule is answered with 404
RunNow(schedule_id) ==
    /\ Len(orchs) < MaxInstances
    /\ FirstMatch(schedules, schedule_id, "u1") # 0
    /\ LET sched == schedules[FirstMatch(schedules, schedule_id, "u1")]
           run_doc == RunDoc(next_id, schedule_id, "u1")
       IN  /\ runs' = Append(runs, run_doc)
           /\ orchs' = Append(orchs, NewInstance(
                  OrchInput(schedule_id, sched.symbols, PromptOf(sched), run_doc.id,
                            sched.email.to, "u1", sched.email.attachPdf, Some(FALSE))))
    /\ next_id' = next_id + 1
    /\ UNCHANGED <<clock, sweep, scan_log, storeVars, recVars, dueVars, synthVars, reportVars, opVars>>

\* the framework runs orchestrator_function from the top for an instance that is
\* not in memory
OrchLoad(i) ==
    /\ orchs[i].status \in {"Pending", "Running"}
    /\ orchs[i].mem = None
    /\ orchs' = [orchs EXCEPT ![i] = [@ EXCEPT !.status = "Running", !.mem = Some(InitialLocals)]]
    /\ UNCHANGED <<clock, next_id, runs, sweep, scan_log, storeVars, recVars, dueVars, synthVars, reportVars, opVars>>

\* a yield whose call has a recorded result: the function receives that result
OrchReplay(i) ==
    /\ orchs[i].status = "Running"
    /\ orchs[i].mem # None
    /\ LET inst == orchs[i]
           m == inst.mem[1]
           call == NextCall(inst.input, m)
       IN  /\ call.kind = "call"
           /\ Recorded(inst, m)
           /\ orchs' = [orchs EXCEPT ![i] =
                  AfterResult([inst EXCEPT !.replayed = Min(@ + 1, MaxReplayed)], m, call,
                              inst.history[m.k + 1].result)]
    /\ UNCHANGED <<clock, next_id, runs, sweep, scan_log, storeVars, recVars, dueVars, synthVars, reportVars, opVars>>

\* a yield whose call has no recorded result: the activity is executed, its
\* result is recorded and the function receives it
OrchExecute(i) ==
    /\ orchs[i].status = "Running"
    /\ orchs[i].mem # None
    /\ LET inst == orchs[i]
           m == inst.mem[1]
           call == NextCall(inst.input, m)
       IN  /\ call.kind = "call"
           /\ ~Recorded(inst, m)
           /\ \E run \in Executions(call) :
                  orchs' = [orchs EXCEPT ![i] =
                      AfterResult([inst EXCEPT
                                      !.history = Append(@, [name |-> call.name, arg |-> call.arg,
                                                             result |-> run.result]),
                                      !.effects = Append(@, [pos |-> m.k + 1, name |-> call.name,
                                                             arg |-> call.arg, env |-> run.env,
                                                             service |-> run.service])],
                                  m, call, run.result)]
           /\ next_id' = IF call.name = "save_report" THEN next_id + 1 ELSE next_id
    /\ UNCHANGED <<clock, runs, sweep, scan_log, storeVars, recVars, dueVars, synthVars, reportVars, opVars>>

\* the function returns: the orchestration is complete with that output
OrchReturn(i) ==
    /\ orchs[i].status = "Running"
    /\ orchs[i].mem # None
    /\ LET inst == orchs[i]
           call == NextCall(inst.input, inst.mem[1])
       IN  /\ call.kind = "return"
           /\ orchs' = [orchs EXCEPT ![i] =
                  [inst EXCEPT !.status = "Completed", !.mem = None, !.output = Some(call.value)]]
    /\ UNCHANGED <<clock, next_id, runs, sweep, scan_log, storeVars, recVars, dueVars, synthVars, reportVars, opVars>>

\* the host restarts: what it held in memory is gone, the history is kept
HostRestart(i) ==
    /\ orchs[i].status = "Running"
    /\ orchs[i].mem # None
    /\ orchs[i].replayed < MaxReplayed
    /\ orchs' = [orchs EXCEPT ![i] = [@ EXCEPT !.mem = None]]
    /\ UNCHANGED <<clock, next_id, runs, sweep, scan_log, storeVars, recVars, dueVars, synthVars, reportVars, opVars>>

NextOrch ==
    \/ \E body \in RunOnceBodies : RunOnce(body)
    \/ \E schedule_id \in 1..Len(CreatedSchedules) : RunNow(schedule_id)
    \/ \E i \in 1..Len(orchs) : OrchLoad(i)
    \/ \E i \in 1..Len(orchs) : OrchReplay(i)
    \/ \E i \in 1..Len(orchs) : OrchExecute(i)
    \/ \E i \in 1..Len(orchs) : OrchReturn(i)
    \/ \E i \in 1..Len(orchs) : HostRestart(i)

SpecOrch == InitOrch /\ [][NextOrch]_vars

StageRank(name) ==
    IF name = "fetch_context" THEN 1
    ELSE IF name = "synthesize_report" THEN 2
    ELSE IF name = "save_report" THEN 3
    ELSE 4

StageNames(inst) == [p \in 1..Len(inst.effects) |-> inst.effects[p].name]

\* the stage recorded at position p of the history completed without an error
Completed(inst, p, name) ==
    /\ p \in 1..Len(inst.history)
    /\ inst.history[p].name = name
    /\ ~inst.history[p].result.raised

\* the sources_per_symbol list made of every recorded fetch_context result
FetchedSources(inst) ==
    [p \in 1..FetchCalls(inst.input) |->
        [symbol |-> IF inst.input.symbols # <<>> THEN inst.input.symbols[p] ELSE "",
         sources |-> inst.history[p].result.value]]

\* C7: in every orchestration the stages are executed in the order fetch_context,
\* synthesize_report, save_report, send_email; synthesize_report is executed only
\* after every fetch_context call has completed and is given all their results,
\* save_report only after synthesize_report has completed and is given its
\* output, send_email only after save_report has completed and is given its
\* output; after a stage that failed no other stage is executed.
StagesRunInOrder ==
    \A i \in 1..Len(orchs) :
        LET inst == orchs[i]
            n == FetchCalls(inst.input)
        IN  /\ \A a, b \in 1..Len(inst.effects) :
                  a < b => StageRank(inst.effects[a].name) <= StageRank(inst.effects[b].name)
            /\ \A a \in 1..Len(inst.effects) :
                  LET e == inst.effects[a]
                  IN  /\ e.name = "synthesize_report" =>
                            /\ e.pos = n + 1
                            /\ \A p \in 1..n : Completed(inst, p, "fetch_context")
                            /\ e.arg.sources = FetchedSources(inst)
                      /\ e.name = "save_report" =>
                            /\ Completed(inst, e.pos - 1, "synthesize_report")
                            /\ e.arg.report = inst.history[e.pos - 1].result.value
                      /\ e.name = "send_email" =>
                            /\ Completed(inst, e.pos - 1, "save_report")
                            /\ e.arg = inst.history[e.pos - 1].result.value
            /\ \A p \in 1..Len(inst.history) :
                  inst.history[p].result.raised =>
                      /\ p = Len(inst.history)
                      /\ inst.status = "Failed"
                      /\ \A a \in 1..Len(inst.effects) : inst.effects[a].pos <= p

\* an orchestration for two symbols and a recipient has completed after all
\* five stage calls
FullPipelineWitness ==
    \E i \in 1..Len(orchs) :
        /\ orchs[i].status = "Completed"
        /\ StageNames(orchs[i]) = <<"fetch_context", "fetch_context", "synthesize_report",
                                    "save_report", "send_email">>

NoInput(inst) == inst.input.symbols = <<>> /\ inst.input.prompt = ""

\* C8: an orchestration whose input has neither symbols nor a prompt executes no
\* stage and records none, does not fail, and when it has completed its output
\* is status "no-input" with a null reportId.
NoInputRunsNoStage ==
    \A i \in 1..Len(orchs) :
        NoInput(orchs[i]) =>
            /\ orchs[i].effects = <<>>
            /\ orchs[i].history = <<>>
            /\ orchs[i].status # "Failed"
            /\ orchs[i].status = "Completed" =>
                  /\ orchs[i].output # None
                  /\ orchs[i].output[1].status = "no-input"
                  /\ orchs[i].output[1].reportId = None

\* an orchestration without symbols and prompt has completed
NoInputCompletedWitness ==
    \E i \in 1..Len(orchs) : NoInput(orchs[i]) /\ orchs[i].status = "Completed"

\* the results in the history of an instance, in the order they were recorded
RecordedResults(inst) == [p \in 1..Len(inst.history) |-> inst.history[p].result]

RunSettledOnceOrchestrationFinished ==
    \A i \in 1..Len(orchs) :
        orchs[i].status \in {"Completed", "Failed"} =>
            \E r \in 1..Len(runs) :
                /\ runs[r].id = orchs[i].input.runId
                /\ runs[r].status \in {"succeeded", "failed"}
                /\ runs[r].status = "failed" => runs[r].error # None

\* the send_email executions of an instance
EmailRuns(inst) == {a \in 1..Len(inst.effects) : inst.effects[a].name = "send_email"}

\* C11: the orchestration executes send_email only with a non-empty recipient
\* list, the one save_report returned; and when the filtered recipient list is
\* empty or the connection string or the sender is not set, send_email returns
\* sent = false with a reason and hands no message to the email service.
NoEmailWithoutRecipientsOrService ==
    \A i \in 1..Len(orchs) :
        \A a \in EmailRuns(orchs[i]) :
            LET e == orchs[i].effects[a]
                r == orchs[i].history[e.pos].result
            IN  /\ e.arg.emailTo # <<>>
                /\ e.arg.emailTo = orchs[i].history[e.pos - 1].result.value.emailTo
                /\ (Recipients(e.arg.emailTo) = <<>> \/ ~e.env[1].acs \/ ~e.env[1].sender) =>
                      /\ ~r.raised
                      /\ ~r.value.sent
                      /\ "reason" \in DOMAIN r.value
                      /\ e.service = <<>>
                /\ \A k \in 1..Len(e.service) :
                      /\ e.service[k].to # <<>>
                      /\ \A j \in 1..Len(e.service[k].to) : ~Blank(e.service[k].to[j])

\* send_email ran for a recipient while the sender was not set, and answered
\* that the email service is not configured
EmailServiceUnconfiguredWitness ==
    \E i \in 1..Len(orchs) :
        \E a \in EmailRuns(orchs[i]) :
            LET e == orchs[i].effects[a]
            IN  /\ Recipients(e.arg.emailTo) # <<>>
                /\ ~e.env[1].sender
                /\ orchs[i].history[e.pos].result =
                       Returned([sent |-> FALSE, reason |-> "email service not configured"])
                /\ orchs[i].status = "Completed"

AdvanceStep == next_iso # None /\ next_iso' # None /\ from_dt' = IsoSeconds(next_iso)

\* a recurrence of a recognized cadence whose interval, when given, is at least 1;
\* an hourly one has its interval given
IntervalConfigured(rec) ==
    /\ rec.type \in RecurrenceTypes
    /\ rec.type = "hours" => rec.interval # None
    /\ rec.interval # None => rec.interval[1] >= 1

ConfiguredInterval(rec) == IF rec.interval = None THEN 1 ELSE rec.interval[1]

HourConfigured(rec) == rec.hour # None /\ rec.hour[1] \in 0..(HoursPerDay - 1)

DowConfigured(rec) == rec.dow # None /\ rec.dow[1] \in 0..(DaysPerWeek - 1)

\* 00:00:00 of the day of dt
StartOfDay(dt) == (dt \div SecondsPerDay) * SecondsPerDay

\* today at hour:00
TodayAt(rec, dt) == StartOfDay(dt) + rec.hour[1] * SecondsPerHour

WeekCandidate(rec, dt) ==
    StartOfDay(dt) + ((rec.dow[1] - weekday(dt)) % DaysPerWeek) * SecondsPerDay
        + rec.hour[1] * SecondsPerHour

ScannerAlwaysComputesNextRun ==
    /\ \A i \in 1..Len(scan_log) : scan_log[i].failed # "recurrence"
    /\ sweep.pc = "update" =>
          (~RecurrenceValid(sweep.sched[1].recurrence) =>
              compute_next_run_utc(sweep.sched[1].recurrence, clock)
                  = now_iso(TruncateToMinute(clock) + SecondsPerHour))

\* the schedules API on a store that holds schedules: time passes, recurrences are
\* changed, runs are started on request
NextSchedules ==
    \/ Tick
    \/ \E schedule_id \in 1..Len(CreatedSchedules), body \in RecurrenceChanges :
            SchedulesUpdate(schedule_id, body)
    \/ \E schedule_id \in 1..Len(CreatedSchedules) : RunNow(schedule_id)

SpecSchedules == InitOrch /\ [][NextSchedules]_vars

\* a run of the k-th stored schedule is started in this step
RunFired(k) ==
    \E i \in 1..Len(orchs') :
        i > Len(orchs) /\ orchs'[i].input.scheduleId = schedules[k].id

\* C17: whenever the recurrence of a stored schedule is changed, and whenever a
\* run of the schedule is fired, the schedule's nextRunAt is afterwards the next
\* run of its current recurrence.
NextRunFollowsRecurrence ==
    [][\A k \in 1..Len(schedules) :
          (schedules'[k].recurrence # schedules[k].recurrence \/ RunFired(k)) =>
              schedules'[k].nextRunAt =
                  Some(compute_next_run_utc(schedules'[k].recurrence, clock'))]_vars

\* C18: the orchestration input the scanner builds for a due schedule carries the
\* symbols, prompt, recipients, attach-PDF flag and deep-research flag the
\* schedule was created with.
ScannerInputCarriesCreatedFields ==
    \A i \in 1..Len(orchs) :
        \E body \in CreateBodies :
            /\ orchs[i].input.symbols = body.symbols
            /\ orchs[i].input.prompt = body.prompt
            /\ orchs[i].input.emailTo = body.email.to
            /\ orchs[i].input.attachPdf = body.email.attachPdf
            /\ DeepResearchOf(orchs[i].input) = body.deepResearch

\* C19: every stored schedule has exactly one of a non-empty prompt and a
\* non-empty symbol list.
StoredScheduleHasPromptOrSymbols ==
    \A k \in 1..Len(schedules) :
        (PromptOf(schedules[k]) # "") # (schedules[k].symbols # <<>>)

\* ---------------------------------------------------------------------------
\* Reports: the save_report activity's writes and the reports_delete handler
\* ---------------------------------------------------------------------------

MaxReports == 2

Users == {"u1", "u2"}

\* f"{user_id}/{schedule_id}/{run_id}/report.*": a path is the tuple of its parts
\* (the parts an orchestration passes are not empty, so replace("//", "/") on the
\* prefix changes nothing)
BlobPath(user_id, schedule_id, run_id, name) == <<user_id, schedule_id, run_id, name>>

BlobPathsAlwaysWithPdf(user_id, schedule_id, run_id, attach_pdf) ==
    [k \in {"md", "html", "pdf"} |-> BlobPath(user_id, schedule_id, run_id, "report." \o k)]

\* blob_paths = {"md": md_path, "html": html_path}, and "pdf" when attach_pdf
BlobPathsOf(user_id, schedule_id, run_id, attach_pdf) ==
    [k \in {"md", "html"} \cup (IF attach_pdf THEN {"pdf"} ELSE {}) |->
        BlobPath(user_id, schedule_id, run_id, "report." \o k)]

\* Report(runId, scheduleId, userId, ..., blobPaths) with the id Report's default gives it
ReportDoc(id, input) ==
    [id |-> id, runId |-> input.runId, scheduleId |-> input.scheduleId,
     userId |-> input.userId,
     blobPaths |-> BlobPathsOf(input.userId, input.scheduleId, input.runId, input.attachPdf)]

\* the document replaces the one stored for the same run, when there is one
SaveReportOncePerRun(docs, doc) ==
    IF \E k \in 1..Len(docs) : docs[k].runId = doc.runId /\ docs[k].userId = doc.userId
    THEN [k \in 1..Len(docs) |->
            IF docs[k].runId = doc.runId /\ docs[k].userId = doc.userId THEN doc ELSE docs[k]]
    ELSE Append(docs, doc)

\* cosmos.save_report: the document is added to the collection
cosmos_save_report(docs, doc) == Append(docs, doc)

\* where an upload or the document write of save_report.main can raise
SaveFailures == {"none", "md", "html", "pdf", "doc"}

SaveInput(run_id, schedule_id, user_id, attach_pdf) ==
    [runId |-> run_id, scheduleId |-> schedule_id, userId |-> user_id,
     attachPdf |-> attach_pdf, emailTo |-> <<"a@example.com">>, title |-> None]

SaveInputs ==
    {SaveInput("r1", "one-off", "u1", TRUE),
     SaveInput("r1", "one-off", "u1", FALSE),
     SaveInput("r1", "one-off", "u2", FALSE)}

\* the Report document is written first, the artifacts are uploaded afterwards
SaveReportDocumentFirst(input, failure, id, docs, store) ==
    LET doc == ReportDoc(id, input)
        bp == doc.blobPaths
        uploaded == CASE failure \in {"md", "doc"} -> {}
                      [] failure = "html" -> {bp["md"]}
                      [] failure = "pdf" -> {bp["md"], bp["html"]}
                      [] OTHER -> {bp[k] : k \in DOMAIN bp}
    IN  [blobs |-> store \cup uploaded,
         docs |-> IF failure # "doc" THEN cosmos_save_report(docs, doc) ELSE docs,
         result |-> IF failure # "none" THEN Raised
                    ELSE Returned([reportId |-> id, blobPaths |-> bp,
                                   emailTo |-> input.emailTo,
                                   title |-> IF input.title = None
                                             THEN "Deep Research Report" ELSE input.title[1],
                                   userId |-> input.userId])]

\* save_report.main: uploads report.md, report.html and (attachPdf) report.pdf,
\* overwriting, then writes the Report document and returns reportId, blobPaths,
\* emailTo, title and userId; an exception ends it where it is
save_report_main(input, failure, id, docs, store) ==
    LET doc == ReportDoc(id, input)
        bp == doc.blobPaths
        uploaded == CASE failure = "md" -> {}
                      [] failure = "html" -> {bp["md"]}
                      [] failure = "pdf" -> {bp["md"], bp["html"]}
                      [] OTHER -> {bp[k] : k \in DOMAIN bp}
    IN  [blobs |-> store \cup uploaded,
         docs |-> IF failure = "none" THEN cosmos_save_report(docs, doc) ELSE docs,
         result |-> IF failure # "none" THEN Raised
                    ELSE Returned([reportId |-> id, blobPaths |-> bp,
                                   emailTo |-> input.emailTo,
                                   title |-> IF input.title = None
                                             THEN "Deep Research Report" ELSE input.title[1],
                                   userId |-> input.userId])]

\* one execution of the save_report activity on the stores
SaveReport(input, failure) ==
    /\ next_id <= MaxReports
    /\ failure = "pdf" => input.attachPdf
    /\ LET run == save_report_main(input, failure, next_id, reports, blobs)
       IN  /\ blobs' = run.blobs
           /\ reports' = run.docs
           /\ next_id' = IF failure = "none" THEN next_id + 1 ELSE next_id
    /\ UNCHANGED <<response, use_cosmos, schedules, clock, runs, orchs, sweep, scan_log,
                   recVars, dueVars, synthVars, opVars>>

\* cosmos.get_report: the document with this id in the user's partition, None when
\* there is none or (Cosmos) the read raised
get_report(docs, report_id, user_id, read_fails) ==
    LET hits == {k \in 1..Len(docs) : docs[k].id = report_id /\ docs[k].userId = user_id}
    IN  IF hits = {} \/ (use_cosmos /\ read_fails) THEN None
        ELSE Some(docs[CHOOSE k \in hits : \A j \in hits : k <= j])

RECURSIVE WithoutReport(_, _, _)
WithoutReport(docs, report_id, user_id) ==
    IF docs = <<>> THEN <<>>
    ELSE IF Head(docs).id = report_id /\ Head(docs).userId = user_id
         THEN WithoutReport(Tail(docs), report_id, user_id)
         ELSE <<Head(docs)>> \o WithoutReport(Tail(docs), report_id, user_id)

\* cosmos.delete_report: removes the document and returns it; None, with nothing
\* removed, when there was none or (Cosmos) read_item or delete_item raised
delete_report(docs, report_id, user_id, delete_fails) ==
    LET doc == get_report(docs, report_id, user_id, delete_fails)
    IN  IF doc = None THEN [docs |-> docs, deleted |-> None]
        ELSE [docs |-> WithoutReport(docs, report_id, user_id), deleted |-> doc]

\* blob.delete_blob: True and the blob is gone, or False when the deletion raised
delete_blob(store, path, fails) == IF fails THEN store ELSE store \ {path}

BlobKeysWithoutPdf == {"md", "html"}

\* for k in ("md", "html", "pdf")
BlobKeys == {"md", "html", "pdf"}

\* the best-effort loop of reports_delete.main over the document's blobPaths
DeleteBlobs(store, blob_paths, failing) ==
    store \ {blob_paths[k] : k \in (BlobKeys \cap DOMAIN blob_paths) \ failing}

Response(report_id, user_id, status, env) ==
    [report_id |-> report_id, user_id |-> user_id, status |-> status, env |-> env]

\* the requests: a missing id, or an id some report has or could have
DeleteIds == {None} \cup {Some(i) : i \in 1..MaxReports}

\* what the stores do during one request: the blob deletions that fail and
\* whether reading or deleting the document fails (Cosmos only: the local store
\* reads and rewrites a file)
DeleteEnvs ==
    {[failing |-> {}, read_fails |-> FALSE, delete_fails |-> FALSE],
     [failing |-> {"md"}, read_fails |-> FALSE, delete_fails |-> FALSE],
     [failing |-> {"html", "pdf"}, read_fails |-> FALSE, delete_fails |-> FALSE],
     [failing |-> {}, read_fails |-> TRUE, delete_fails |-> FALSE],
     [failing |-> {}, read_fails |-> FALSE, delete_fails |-> TRUE]}

\* reports_delete.main
ReportsDelete(report_id, user_id, env) ==
    /\ (env.read_fails \/ env.delete_fails) => use_cosmos
    /\ IF report_id = None
       THEN /\ response' = Some(Response(report_id, user_id, 400, env))
            /\ UNCHANGED <<reports, blobs>>
       ELSE LET doc == get_report(reports, report_id[1], user_id, env.read_fails)
            IN  IF doc = None
                THEN /\ response' = Some(Response(report_id, user_id, 404, env))
                     /\ UNCHANGED <<reports, blobs>>
                ELSE LET removal == delete_report(reports, report_id[1], user_id, env.delete_fails)
                     IN  /\ blobs' = DeleteBlobs(blobs, doc[1].blobPaths, env.failing)
                         /\ reports' = removal.docs
                         /\ response' = Some(Response(report_id, user_id,
                                IF removal.deleted # None THEN 200 ELSE 404, env))
    /\ UNCHANGED <<storeVars, scanVars, recVars, dueVars, synthVars, opVars>>

InitReports ==
    /\ use_cosmos \in BOOLEAN
    /\ schedules = <<>>
    /\ IdleReports
    /\ IdleOps
    /\ IdleScanner
    /\ IdleRecurrence
    /\ IdleDueQuery
    /\ IdleSynth

NextReports ==
    \/ \E input \in SaveInputs, failure \in SaveFailures : SaveReport(input, failure)
    \/ \E report_id \in DeleteIds, user_id \in Users, env \in DeleteEnvs :
            ReportsDelete(report_id, user_id, env)

SpecReports == InitReports /\ [][NextReports]_vars

\* the stored report a delete request names, None when the requester has none
Requested(docs, resp) ==
    IF resp.report_id = None THEN None
    ELSE get_report(docs, resp.report_id[1], resp.user_id, FALSE)

Holds(docs, report_id, user_id) == get_report(docs, report_id[1], user_id, FALSE) # None

\* a step of reports_delete.main for a request with an id: save_report only adds
\* to the stores and leaves the response alone
DeleteStep ==
    /\ response' # None
    /\ response'[1].report_id # None
    /\ response' # response \/ reports' # reports \/ blobs' # blobs
    /\ blobs' \subseteq blobs
    /\ Len(reports') <= Len(reports)

MaxCascade == 2

\* limit=10000 of the handler's list_reports_for_user call
CascadeLimit == 10000

\* a stored report: save_report's document with the createdAt the store gave it
StoredReport(id, input, createdAt) ==
    LET doc == ReportDoc(id, input)
    IN  [f \in DOMAIN doc \cup {"createdAt"} |->
            IF f = "createdAt" THEN createdAt ELSE doc[f]]

\* x.get("createdAt") or "": the sort key, "" below every timestamp
CreatedBefore(a, b) ==
    IF b.createdAt = None THEN FALSE
    ELSE IF a.createdAt = None THEN TRUE
    ELSE IsoLess(a.createdAt[1], b.createdAt[1])

\* items.sort(key=createdAt, reverse=True): newest first, ties in stored order
RECURSIVE InsertByCreatedAtDesc(_, _)
InsertByCreatedAtDesc(sorted, r) ==
    IF sorted = <<>> THEN <<r>>
    ELSE IF CreatedBefore(Head(sorted), r) THEN <<r>> \o sorted
    ELSE <<Head(sorted)>> \o InsertByCreatedAtDesc(Tail(sorted), r)

RECURSIVE SortByCreatedAtDesc(_)
SortByCreatedAtDesc(docs) ==
    IF docs = <<>> THEN <<>>
    ELSE InsertByCreatedAtDesc(SortByCreatedAtDesc(SubSeq(docs, 1, Len(docs) - 1)),
                               docs[Len(docs)])

RECURSIVE ReportsOf(_, _, _)
ReportsOf(docs, user_id, schedule_id) ==
    IF docs = <<>> THEN <<>>
    ELSE IF Head(docs).userId = user_id /\ Head(docs).scheduleId = schedule_id
         THEN <<Head(docs)>> \o ReportsOf(Tail(docs), user_id, schedule_id)
         ELSE ReportsOf(Tail(docs), user_id, schedule_id)

\* cosmos.list_reports_for_user(user_id, schedule_id, limit)
list_reports_for_user(docs, user_id, schedule_id, limit) ==
    Take(SortByCreatedAtDesc(ReportsOf(docs, user_id, schedule_id)), limit)

\* cosmos.get_schedule: None when there is none or (Cosmos) the read raised
get_schedule(docs, schedule_id, user_id, read_fails) ==
    LET k == FirstMatch(docs, schedule_id, user_id)
    IN  IF k = 0 \/ (use_cosmos /\ read_fails) THEN None ELSE Some(docs[k])

\* the handler's loop over the listed reports: the blobs, then the document;
\* a report in report_fails is one whose document deletion fails (Cosmos)
RECURSIVE DeleteReports(_, _, _, _)
DeleteReports(store, listed, user_id, env) ==
    IF listed = <<>> THEN store
    ELSE LET r == Head(listed)
             after == [docs |-> delete_report(store.docs, r.id, user_id,
                                              r.id \in env.report_fails).docs,
                       blobs |-> DeleteBlobs(store.blobs, r.blobPaths, env.failing)]
         IN  DeleteReports(after, Tail(listed), user_id, env)

\* cosmos.delete_runs_for_schedule inside the handler's try: the runs that are
\* left; under Cosmos the query can raise and single deletions can fail
RECURSIVE delete_runs_for_schedule(_, _, _, _)
delete_runs_for_schedule(docs, schedule_id, user_id, env) ==
    IF docs = <<>> THEN <<>>
    ELSE LET r == Head(docs)
             rest == delete_runs_for_schedule(Tail(docs), schedule_id, user_id, env)
             kept == use_cosmos /\ (env.runs_query_fails \/ r.id \in env.run_fails)
         IN  IF r.scheduleId = schedule_id /\ r.userId = user_id /\ ~kept
             THEN rest
             ELSE <<r>> \o rest

RECURSIVE WithoutSchedule(_, _, _)
WithoutSchedule(docs, schedule_id, user_id) ==
    IF docs = <<>> THEN <<>>
    ELSE IF Head(docs).id = schedule_id /\ Head(docs).userId = user_id
         THEN WithoutSchedule(Tail(docs), schedule_id, user_id)
         ELSE <<Head(docs)>> \o WithoutSchedule(Tail(docs), schedule_id, user_id)

DeleteScheduleIgnoringFailure(docs, schedule_id, user_id, delete_fails) ==
    [docs |-> WithoutSchedule(docs, schedule_id, user_id), deleted |-> TRUE]

\* cosmos.delete_schedule: False, with nothing removed, when there was none or
\* (Cosmos) delete_item raised
delete_schedule(docs, schedule_id, user_id, delete_fails) ==
    IF FirstMatch(docs, schedule_id, user_id) = 0 \/ (use_cosmos /\ delete_fails)
    THEN [docs |-> docs, deleted |-> FALSE]
    ELSE [docs |-> WithoutSchedule(docs, schedule_id, user_id), deleted |-> TRUE]

ScheduleResponse(schedule_id, user_id, status, env) ==
    [schedule_id |-> schedule_id, user_id |-> user_id, status |-> status, env |-> env]

NoFailure ==
    [read_fails |-> FALSE, failing |-> {}, report_fails |-> {}, runs_query_fails |-> FALSE,
     run_fails |-> {}, schedule_fails |-> FALSE]

\* what the stores do during one request
CascadeEnvs ==
    {NoFailure,
     [NoFailure EXCEPT !.read_fails = TRUE],
     [NoFailure EXCEPT !.failing = {"md"}],
     [NoFailure EXCEPT !.report_fails = {1}],
     [NoFailure EXCEPT !.runs_query_fails = TRUE],
     [NoFailure EXCEPT !.run_fails = {1}],
     [NoFailure EXCEPT !.schedule_fails = TRUE]}

DocFailure(env) ==
    \/ env.read_fails \/ env.runs_query_fails \/ env.schedule_fails
    \/ env.report_fails # {} \/ env.run_fails # {}

\* schedules_delete.main
SchedulesDelete(schedule_id, user_id, env) ==
    /\ DocFailure(env) => use_cosmos
    /\ IF schedule_id = None
       THEN /\ response' = Some(ScheduleResponse(schedule_id, user_id, 400, env))
            /\ UNCHANGED <<schedules, runs, reports, blobs>>
       ELSE IF get_schedule(schedules, schedule_id[1], user_id, env.read_fails) = None
       THEN /\ response' = Some(ScheduleResponse(schedule_id, user_id, 404, env))
            /\ UNCHANGED <<schedules, runs, reports, blobs>>
       ELSE LET listed == list_reports_for_user(reports, user_id, schedule_id[1], CascadeLimit)
                after == DeleteReports([docs |-> reports, blobs |-> blobs], listed, user_id, env)
                removal == delete_schedule(schedules, schedule_id[1], user_id, env.schedule_fails)
            IN  /\ reports' = after.docs
                /\ blobs' = after.blobs
                /\ runs' = delete_runs_for_schedule(runs, schedule_id[1], user_id, env)
                /\ schedules' = removal.docs
                /\ response' = Some(ScheduleResponse(schedule_id, user_id,
                                        IF removal.deleted THEN 200 ELSE 404, env))
    /\ UNCHANGED <<use_cosmos, clock, next_id, orchs, sweep, scan_log,
                   recVars, dueVars, synthVars, opVars>>

\* the two schedules of user u1 the stores start with
CascadeSchedules ==
    <<ScheduleModel(1, "u1", <<"AAPL">>, Rec("daily", Some(9), None, None),
                    EmailSettings(<<>>, FALSE), TRUE, Some(now_iso(NineOClock))),
      ScheduleModel(2, "u1", <<"MSFT">>, Rec("hours", None, None, Some(1)),
                    EmailSettings(<<>>, FALSE), TRUE, Some(now_iso(NineOClock)))>>

\* the runs and the reports of the two schedules, up to MaxCascade of each
CascadeRuns ==
    UNION {{[k \in 1..n |-> RunDoc(k, of[k], "u1")] : of \in [1..n -> {1, 2}]} :
              n \in 0..MaxCascade}

CascadeReports ==
    UNION {{[k \in 1..n |->
                StoredReport(k, [runId |-> k, scheduleId |-> of[k], userId |-> "u1",
                                 attachPdf |-> (k = 1)],
                             Some(now_iso(k * SecondsPerHour)))] :
              of \in [1..n -> {1, 2}]} : n \in 0..MaxCascade}

InitCascade ==
    /\ use_cosmos \in BOOLEAN
    /\ schedules = CascadeSchedules
    /\ runs \in CascadeRuns
    /\ reports \in CascadeReports
    /\ blobs = UNION {{reports[k].blobPaths[f] : f \in DOMAIN reports[k].blobPaths} :
                        k \in 1..Len(reports)}
    /\ response = None
    /\ clock = FirstInstant
    /\ next_id = 1
    /\ orchs = <<>>
    /\ sweep = IdleSweep
    /\ scan_log = <<>>
    /\ IdleRecurrence
    /\ IdleDueQuery
    /\ IdleSynth
    /\ IdleOps

NextCascade ==
    \E schedule_id \in {None, Some(1), Some(2), Some(3)}, user_id \in Users, env \in CascadeEnvs :
        SchedulesDelete(schedule_id, user_id, env)

SpecCascade == InitCascade /\ [][NextCascade]_vars

\* a step of the handler that got past the lookup of the schedule
CascadeStep ==
    /\ response' # None
    /\ response'[1].schedule_id # None
    /\ FirstMatch(schedules, response'[1].schedule_id[1], response'[1].user_id) # 0
    /\ ~(use_cosmos /\ response'[1].env.read_fails)
    /\ response' # response \/ schedules' # schedules \/ runs' # runs \/ reports' # reports

LeftOf(docs, schedule_id, user_id) ==
    {docs[k].id : k \in {j \in 1..Len(docs) :
                            docs[j].scheduleId = schedule_id /\ docs[j].userId = user_id}}

MaxTracked == 3

\* TrackedStock(userId, symbol, reportId, recommendationDate) as stored; reportId
\* is None when the caller gave none; a recommendationDate d stands for the text
\* "2024-01-0d", and texts of this form compare as their numbers do
TrackedStockDoc(id, userId, symbol, reportId, recommendationDate) ==
    [id |-> id, userId |-> userId, symbol |-> symbol, reportId |-> reportId,
     recommendationDate |-> recommendationDate]

\* Python's truth value of an optional text: None and "" are false
Truthy(x) == x # None /\ x[1] # ""

\* the local branch of get_tracked_stock_by_symbol: the first entry of the user
\* and symbol with this reportId or, for a falsy report_id, with a falsy reportId
LocalTrackedMatches(docs, user_id, symbol, report_id) ==
    {k \in 1..Len(docs) :
        /\ docs[k].userId = user_id
        /\ docs[k].symbol = symbol
        /\ IF Truthy(report_id) THEN docs[k].reportId = report_id
                                ELSE ~Truthy(docs[k].reportId)}

\* the Cosmos branch: c.reportId = @reportId or, for a falsy report_id,
\* NOT IS_DEFINED(c.reportId) OR c.reportId = null
CosmosTrackedMatches(docs, user_id, symbol, report_id) ==
    {k \in 1..Len(docs) :
        /\ docs[k].userId = user_id
        /\ docs[k].symbol = symbol
        /\ IF Truthy(report_id) THEN docs[k].reportId = report_id
                                ELSE docs[k].reportId = None}

\* get_tracked_stock_by_symbol: the answers it can give; the local store gives
\* the first match, the Cosmos query is unordered and items[0] is any match
get_tracked_stock_by_symbol(docs, user_id, symbol, report_id) ==
    IF use_cosmos
    THEN LET hits == CosmosTrackedMatches(docs, user_id, symbol, report_id)
         IN  IF hits = {} THEN {None} ELSE {Some(docs[k]) : k \in hits}
    ELSE LET hits == LocalTrackedMatches(docs, user_id, symbol, report_id)
         IN  IF hits = {} THEN {None}
             ELSE {Some(docs[CHOOSE k \in hits : \A j \in hits : k <= j])}

RECURSIVE WithoutTracked(_, _, _)
WithoutTracked(docs, stock_id, user_id) ==
    IF docs = <<>> THEN <<>>
    ELSE IF Head(docs).id = stock_id /\ Head(docs).userId = user_id
         THEN WithoutTracked(Tail(docs), stock_id, user_id)
         ELSE <<Head(docs)>> \o WithoutTracked(Tail(docs), stock_id, user_id)

\* delete_tracked_stock: False, with nothing removed, when there was none or
\* (Cosmos) delete_item raised
delete_tracked_stock(docs, stock_id, user_id, delete_fails) ==
    LET after == WithoutTracked(docs, stock_id, user_id)
    IN  IF after = docs \/ (use_cosmos /\ delete_fails)
        THEN [docs |-> docs, deleted |-> FALSE]
        ELSE [docs |-> after, deleted |-> TRUE]

\* existing.get("recommendationDate", "") <= stock.recommendationDate
KeepsExisting(existing, stock) == existing.recommendationDate <= stock.recommendationDate

Call(name, arg) == [name |-> name, arg |-> arg]

TrackedInputs ==
    {[userId |-> "u1", symbol |-> "AAPL", reportId |-> r, recommendationDate |-> d] :
        r \in {None, Some(""), Some("r1")}, d \in 1..3}

\* create_tracked_stock(stock)
CreateTrackedStock(stock, delete_fails) ==
    /\ next_id <= MaxTracked
    /\ delete_fails => use_cosmos
    /\ \E existing \in get_tracked_stock_by_symbol(tracked, stock.userId, stock.symbol,
                                                   stock.reportId) :
          LET data == TrackedStockDoc(next_id, stock.userId, stock.symbol, stock.reportId,
                                      stock.recommendationDate)
          IN  IF existing # None /\ KeepsExisting(existing[1], stock)
              THEN /\ op_result' = Some(existing[1])
                   /\ UNCHANGED <<tracked, next_id>>
              ELSE /\ tracked' = Append(
                          IF existing = None THEN tracked
                          ELSE delete_tracked_stock(tracked, existing[1].id, stock.userId,
                                                    delete_fails).docs,
                          data)
                   /\ next_id' = next_id + 1
                   /\ op_result' = Some(data)
    /\ op_call' = Some(Call("create_tracked_stock", stock))
    /\ UNCHANGED <<writers, twin, use_cosmos, schedules, clock, runs, orchs, sweep, scan_log,
                   recVars, dueVars, synthVars, reportVars>>

\* tracked_stocks_delete.main, for a request with a stock id
DeleteTrackedStock(stock_id, user_id, delete_fails) ==
    /\ delete_fails => use_cosmos
    /\ LET removal == delete_tracked_stock(tracked, stock_id, user_id, delete_fails)
       IN  /\ tracked' = removal.docs
           /\ op_result' = Some(removal.deleted)
    /\ op_call' = Some(Call("delete_tracked_stock", [id |-> stock_id, userId |-> user_id]))
    /\ UNCHANGED <<writers, twin, storeVars, scanVars, recVars, dueVars, synthVars, reportVars>>

InitTracked ==
    /\ use_cosmos \in BOOLEAN
    /\ schedules = <<>>
    /\ IdleScanner
    /\ IdleRecurrence
    /\ IdleDueQuery
    /\ IdleSynth
    /\ IdleReports
    /\ IdleOps

NextTracked ==
    \/ \E stock \in TrackedInputs, delete_fails \in BOOLEAN :
            CreateTrackedStock(stock, delete_fails)
    \/ \E stock_id \in 1..MaxTracked, user_id \in Users, delete_fails \in BOOLEAN :
            DeleteTrackedStock(stock_id, user_id, delete_fails)

SpecTracked == InitTracked /\ [][NextTracked]_vars

\* the bucket of a reportId: an absent or empty reportId is the null bucket
Bucket(report_id) == IF Truthy(report_id) THEN report_id ELSE None

SameKey(a, b) ==
    a.userId = b.userId /\ a.symbol = b.symbol /\ Bucket(a.reportId) = Bucket(b.reportId)

Held(docs, stock) == {k \in 1..Len(docs) : SameKey(docs[k], stock)}

CreateStep ==
    /\ op_call' # None
    /\ op_call'[1].name = "create_tracked_stock"
    /\ <<tracked, op_call, op_result, next_id>>' # <<tracked, op_call, op_result, next_id>>

\* C22: when the key of the created stock already holds an entry, an earlier
\* date replaces that entry with the new one, and a later date leaves the store
\* as it is and returns the entry held
EarlierRecommendationWins ==
    [][CreateStep =>
        LET stock == op_call'[1].arg
        IN  \A k \in Held(tracked, stock) :
                /\ stock.recommendationDate < tracked[k].recommendationDate =>
                        /\ \A j \in 1..Len(tracked') : tracked'[j].id # tracked[k].id
                        /\ op_result'[1] \in {tracked'[j] : j \in 1..Len(tracked')}
                        /\ op_result'[1].recommendationDate = stock.recommendationDate
                /\ stock.recommendationDate > tracked[k].recommendationDate =>
                        /\ tracked' = tracked
                        /\ op_result'[1] = tracked[k]]_vars

\* C23: at most one entry per (userId, symbol, reportId bucket), and a creation
\* leaves the key holding the earliest of the entry it held and the new one
OneEarliestEntryPerKey ==
    /\ [](\A i, j \in 1..Len(tracked) : SameKey(tracked[i], tracked[j]) => i = j)
    /\ [][CreateStep =>
            LET stock == op_call'[1].arg
                before == {tracked[k].recommendationDate : k \in Held(tracked, stock)}
                         \cup {stock.recommendationDate}
            IN  \A k \in Held(tracked', stock) :
                    \A d \in before : tracked'[k].recommendationDate <= d]_vars

\* ---------------------------------------------------------------------------
\* fetch_context: search, fetch and extract each result, de-duplicate by URL
\* ---------------------------------------------------------------------------

MaxResults == 3

\* top_k=6 of the web_search call
TopK == 6

\* str.strip() on the texts the inputs are drawn from
Strip(x) == IF x = " " THEN "" ELSE x

Source(title, url, excerpt) == [title |-> title, url |-> url, excerpt |-> excerpt]

\* bing.web_search(query, top_k): the items the service answered, each with a
\* stripped, non-empty url, at most top_k of them; [] for an empty query
web_search(query, env, top_k) ==
    IF Strip(query) = "" THEN <<>> ELSE Take(env.results, top_k)

\* bing.fetch_and_extract(url): None for an empty url; a failed fetch and a
\* failed extraction give the url as title with an empty excerpt
fetch_and_extract(url, env) ==
    IF Strip(url) = "" THEN None
    ELSE CASE env.pages[url] = "fetch_fails" -> Some(Source(url, url, ""))
           [] env.pages[url] = "readable" -> Some(Source("Title of " \o url, url, "text"))
           [] env.pages[url] = "crude" -> Some(Source("Page " \o url, url, "text"))
           [] OTHER -> Some(Source(url, url, ""))

\* the loop over the results: sources.append(extracted) when extracted
RECURSIVE ExtractAll(_, _)
ExtractAll(results, env) ==
    IF results = <<>> THEN <<>>
    ELSE LET url == Head(results).url
             extracted == IF url = "" THEN None ELSE fetch_and_extract(url, env)
         IN  (IF extracted = None THEN <<>> ELSE <<extracted[1]>>) \o
             ExtractAll(Tail(results), env)

SeenIgnored(u, seen) == u # ""

\* if u and u not in seen
Unseen(u, seen) == u # "" /\ u \notin seen

\* the de-dup loop: uniq.append(s) and seen.add(u) for each unseen url
RECURSIVE Dedup(_, _)
Dedup(sources, seen) ==
    IF sources = <<>> THEN <<>>
    ELSE LET u == Head(sources).url
         IN  IF Unseen(u, seen)
             THEN <<Head(sources)>> \o Dedup(Tail(sources), seen \cup {u})
             ELSE Dedup(Tail(sources), seen)

\* fetch_context.main: the list returned, the queries searched, the urls fetched
fetch_context_main(input, env) ==
    LET prompt == Strip(input.prompt)
        symbol == Strip(input.symbol)
        query == IF prompt # "" THEN prompt
                 ELSE symbol \o " stock latest news earnings financial results analysis"
    IN  IF prompt = "" /\ symbol = ""
        THEN [value |-> <<>>, searched |-> <<>>, sources |-> <<>>]
        ELSE LET results == web_search(query, env, TopK)
                 sources == ExtractAll(results, env)
             IN  [value |-> Dedup(sources, {}), searched |-> <<query>>, sources |-> sources]

Urls == {"https://a.example", "https://b.example", "https://c.example"}

PageOutcomes == {"fetch_fails", "readable", "crude", "extract_fails"}

SearchResults ==
    UNION {[1..n -> {Source("hit", u, "snippet") : u \in Urls}] : n \in 0..MaxResults}

FetchInputs ==
    {[prompt |-> p, symbol |-> y] : p \in {"", " ", "Tech sector overview"},
                                    y \in {"", "AAPL"}}

FetchEnvs == {[results |-> rs, pages |-> pg] : rs \in SearchResults, pg \in [Urls -> PageOutcomes]}

InitFetch ==
    /\ op_call \in {Some(Call("fetch_context", [input |-> i, env |-> e])) :
                        i \in FetchInputs, e \in FetchEnvs}
    /\ op_result = None
    /\ tracked = <<>>
    /\ writers = <<>>
    /\ twin = None
    /\ EmptyStore
    /\ IdleScanner
    /\ IdleRecurrence
    /\ IdleDueQuery
    /\ IdleSynth
    /\ IdleReports

FetchContext ==
    /\ op_call # None
    /\ op_call[1].name = "fetch_context"
    /\ op_result = None
    /\ op_result' = Some(fetch_context_main(op_call[1].arg.input, op_call[1].arg.env))
    /\ UNCHANGED <<tracked, op_call, writers, twin, storeVars, scanVars, recVars, dueVars,
                   synthVars, reportVars>>

NextFetch == FetchContext

SpecFetch == InitFetch /\ [][NextFetch]_vars

FirstSeen(sources) ==
    {k \in 1..Len(sources) : \A j \in 1..(k - 1) : sources[j].url # sources[k].url}

\* an order-preserving one-to-one map from the positions of out onto keep
SubsequenceAt(out, sources, keep) ==
    /\ Len(out) = Cardinality(keep)
    /\ \A k \in keep :
            out[Cardinality({j \in keep : j <= k})] = sources[k]

\* C24: with neither a prompt nor a symbol the answer is [] and nothing is
\* searched; otherwise no two entries of the answer share a url and the answer
\* is the extracted sources, in order, without the later duplicates of a url
FetchContextDedupsInOrder ==
    op_result # None =>
        LET in == op_call[1].arg.input
            out == op_result[1]
        IN  IF Strip(in.prompt) = "" /\ Strip(in.symbol) = ""
            THEN out.value = <<>> /\ out.searched = <<>>
            ELSE /\ \A i, j \in 1..Len(out.value) :
                        out.value[i].url = out.value[j].url => i = j
                 /\ SubsequenceAt(out.value, out.sources, FirstSeen(out.sources))

\* the search answered a, b, a: the answer keeps the first a and then b
DuplicateUrlDroppedWitness ==
    /\ op_result # None
    /\ Len(op_result[1].sources) = 3
    /\ op_result[1].sources[1].url = op_result[1].sources[3].url
    /\ op_result[1].sources[1].url # op_result[1].sources[2].url
    /\ Len(op_result[1].value) = 2

\* C25: a result whose fetch or extraction fails contributes no entry, and the
\* other results are still processed
FailedUrlIsSkipped ==
    op_result # None /\ op_result[1].searched # <<>> =>
        LET env == op_call[1].arg.env
            out == op_result[1].value
            failed(u) == env.pages[u] \in {"fetch_fails", "extract_fails"}
        IN  \A k \in 1..Len(env.results) :
                LET u == env.results[k].url
                IN  IF failed(u) THEN \A j \in 1..Len(out) : out[j].url # u
                    ELSE \E j \in 1..Len(out) : out[j].url = u

\* ---------------------------------------------------------------------------
\* save_report: what is persisted and what is handed to the next stage
\* ---------------------------------------------------------------------------

SaveCallInputs ==
    {SaveInput(r, sid, u, a) : r \in {"r1", "r2"}, sid \in {"one-off", "s1"},
                               u \in {"u1"}, a \in BOOLEAN}

\* one execution of the save_report activity, with its input and its output
SaveReportCall(input, failure) ==
    /\ next_id <= MaxReports
    /\ failure = "pdf" => input.attachPdf
    /\ LET run == save_report_main(input, failure, next_id, reports, blobs)
       IN  /\ blobs' = run.blobs
           /\ reports' = run.docs
           /\ next_id' = IF failure = "none" THEN next_id + 1 ELSE next_id
           /\ op_result' = Some(run.result)
    /\ op_call' = Some(Call("save_report", input))
    /\ UNCHANGED <<tracked, writers, twin, response, use_cosmos, schedules, clock, runs, orchs,
                   sweep, scan_log, recVars, dueVars, synthVars>>

NextSave ==
    \E input \in SaveCallInputs, failure \in SaveFailures : SaveReportCall(input, failure)

SpecSave == InitReports /\ [][NextSave]_vars

ExpectedPath(doc, kind) == <<doc.userId, doc.scheduleId, doc.runId, "report." \o kind>>

\* C26: a persisted Report has blobPaths md and html at
\* {userId}/{scheduleId}/{runId}/report.md and report.html, and pdf (at
\* .../report.pdf) exactly when the run asked for the PDF; the activity's output
\* carries the same blobPaths
PersistedBlobPathsMatchRequest ==
    [][Len(reports') = Len(reports) + 1 =>
        LET doc == reports'[Len(reports')]
            input == op_call'[1].arg
            out == op_result'[1]
        IN  /\ doc.userId = input.userId
            /\ doc.scheduleId = input.scheduleId
            /\ doc.runId = input.runId
            /\ {"md", "html"} \subseteq DOMAIN doc.blobPaths
            /\ DOMAIN doc.blobPaths \subseteq {"md", "html", "pdf"}
            /\ ("pdf" \in DOMAIN doc.blobPaths) = input.attachPdf
            /\ \A k \in DOMAIN doc.blobPaths : doc.blobPaths[k] = ExpectedPath(doc, k)
            /\ ~out.raised
            /\ out.value.blobPaths = doc.blobPaths
            /\ out.value.reportId = doc.id]_vars

\* a report was persisted for a run that asked for the PDF
ReportWithPdfPersistedWitness ==
    /\ op_call # None
    /\ op_call[1].arg.attachPdf
    /\ op_result # None
    /\ ~op_result[1].raised
    /\ \E k \in 1..Len(reports) :
            /\ reports[k].id = op_result[1].value.reportId
            /\ "pdf" \in DOMAIN reports[k].blobPaths
            /\ reports[k].blobPaths["pdf"] \in blobs

\* ---------------------------------------------------------------------------
\* Retention sweep: cleanup_reports.main
\* ---------------------------------------------------------------------------

MaxSweep == 2

\* a createdAt text that datetime.fromisoformat rejects
Unparsable == <<0>>

\* datetime.fromisoformat(created)
fromisoformat(text) == IF Len(text) = 4 THEN Returned(IsoSeconds(text)) ELSE Raised

\* _parse_int(REPORT_RETENTION_DAYS, 0): None when the setting is no integer
parse_int(env_val, default) == IF env_val = None THEN default ELSE env_val[1]

\* the test that keeps a report: created_dt > cutoff
NewerThanCutoff(created_dt, cutoff) == created_dt > cutoff

\* the body of the sweep's loop for one report: skip it, or delete its blobs
\* and then its document; a report in report_fails is one whose document
\* deletion fails (Cosmos)
CleanupOne(store, r, cutoff, env) ==
    IF r.createdAt = None THEN store
    ELSE LET created_dt == fromisoformat(r.createdAt[1])
         IN  IF created_dt.raised THEN store
             ELSE IF NewerThanCutoff(created_dt.value, cutoff) THEN store
             ELSE [docs |-> delete_report(store.docs, r.id, r.userId,
                                          r.id \in env.report_fails).docs,
                   blobs |-> DeleteBlobs(store.blobs, r.blobPaths, env.failing)]

RECURSIVE CleanupAll(_, _, _, _)
CleanupAll(store, all_reports, cutoff, env) ==
    IF all_reports = <<>> THEN store
    ELSE CleanupAll(CleanupOne(store, Head(all_reports), cutoff, env),
                    Tail(all_reports), cutoff, env)

RetentionSettings == {None, Some(-1), Some(0), Some(1), Some(2)}

CleanupEnvs ==
    {[failing |-> {}, report_fails |-> {}],
     [failing |-> {"md"}, report_fails |-> {}],
     [failing |-> {}, report_fails |-> {1}]}

\* cleanup_reports.main, one run of the timer function
CleanupReports(setting, env) ==
    /\ op_result = None
    /\ env.report_fails # {} => use_cosmos
    /\ LET days == parse_int(setting, 0)
           cutoff == clock - days * SecondsPerDay
           after == IF days <= 0 THEN [docs |-> reports, blobs |-> blobs]
                    ELSE CleanupAll([docs |-> reports, blobs |-> blobs], reports, cutoff, env)
       IN  /\ reports' = after.docs
           /\ blobs' = after.blobs
           /\ op_call' = Some(Call("cleanup_reports", [days |-> days, env |-> env]))
           /\ op_result' = Some([docs |-> reports, blobs |-> blobs])
    /\ UNCHANGED <<tracked, writers, twin, response, storeVars, scanVars, recVars, dueVars,
                   synthVars>>

CreatedAts ==
    {None, Some(Unparsable), Some(now_iso(NineOClock)),
     Some(now_iso(SecondsPerDay + NineOClock)), Some(now_iso(2 * SecondsPerDay + NineOClock))}

SweepInstants ==
    {2 * SecondsPerDay + NineOClock, 2 * SecondsPerDay + NineOClock + SecondsPerHour,
     3 * SecondsPerDay + NineOClock}

SweepReports ==
    UNION {{[k \in 1..n |->
                StoredReport(k, SaveInput(k, "one-off", "u1", FALSE), at[k])] :
              at \in [1..n -> CreatedAts]} : n \in 0..MaxSweep}

InitCleanup ==
    /\ use_cosmos \in BOOLEAN
    /\ schedules = <<>>
    /\ clock \in SweepInstants
    /\ reports \in SweepReports
    /\ blobs = UNION {{reports[k].blobPaths[f] : f \in DOMAIN reports[k].blobPaths} :
                        k \in 1..Len(reports)}
    /\ response = None
    /\ next_id = 1
    /\ runs = <<>>
    /\ orchs = <<>>
    /\ sweep = IdleSweep
    /\ scan_log = <<>>
    /\ IdleRecurrence
    /\ IdleDueQuery
    /\ IdleSynth
    /\ IdleOps

NextCleanup == \E setting \in RetentionSettings, env \in CleanupEnvs : CleanupReports(setting, env)

SpecCleanup == InitCleanup /\ [][NextCleanup]_vars

Kept(docs, id) == \E k \in 1..Len(docs) : docs[k].id = id

\* the report's createdAt is a timestamp before the cutoff of this sweep
OlderThanCutoff(r, days) ==
    /\ r.createdAt # None
    /\ ~fromisoformat(r.createdAt[1]).raised
    /\ fromisoformat(r.createdAt[1]).value < clock - days * SecondsPerDay

\* C27: a sweep with a threshold of 0 or less deletes nothing; otherwise it
\* deletes only reports whose createdAt is older than now minus the retention
\* days (so none that is newer, without createdAt or with an unparsable one), and
\* a report whose deletion fails does not keep the older reports after it
SweepDeletesOnlyOlderReports ==
    op_result # None =>
        LET days == op_call[1].arg.days
            env == op_call[1].arg.env
            before == op_result[1]
        IN  IF days <= 0
            THEN reports = before.docs /\ blobs = before.blobs
            ELSE \A k \in 1..Len(before.docs) :
                    LET r == before.docs[k]
                    IN  /\ ~Kept(reports, r.id) => OlderThanCutoff(r, days)
                        /\ OlderThanCutoff(r, days) /\ r.id \notin env.report_fails
                                => ~Kept(reports, r.id)

\* ---------------------------------------------------------------------------
\* The two Document Store backends, serving the same requests side by side
\* ---------------------------------------------------------------------------

MaxTwin == 2

\* the stores of the two deployments: the Cosmos container and the db.json file
\* of the deployment with USE_COSMOS, and the db.json file of the local one
Stores(container, stray, file) == [container |-> container, stray |-> stray, file |-> file]

Both(on_cosmos, on_local) == [cosmos |-> on_cosmos, local |-> on_local]

\* s.update(body) on the first schedule with this id and owner of db.json
UpdateInFile(docs, schedule_id, user_id, body) ==
    LET k == FirstMatch(docs, schedule_id, user_id)
    IN  [i \in 1..Len(docs) |->
            IF i = k
            THEN [f \in DOMAIN docs[i] |-> IF f \in DOMAIN body THEN body[f] ELSE docs[i][f]]
            ELSE docs[i]]

\* schedules_update.main on a deployment's db.json: the status it answers
UpdateStatus(docs, schedule_id, user_id) ==
    IF FirstMatch(docs, schedule_id, user_id) # 0 THEN 200 ELSE 404

TwinBodies ==
    {[recurrence |-> Rec("hours", None, None, Some(2))], [active |-> FALSE]}

TwinFrame ==
    UNCHANGED <<tracked, writers, storeVars, clock, runs, orchs, sweep, scan_log,
                recVars, dueVars, synthVars, reportVars>>

\* POST /api/schedules on both deployments: cosmos.create_schedule
TwinCreate(body) ==
    /\ next_id <= MaxTwin
    /\ LET doc == ScheduleModel(next_id, "u1", body.symbols, body.recurrence, body.email,
                                body.active, Some(compute_next_run_utc(body.recurrence, clock)))
       IN  /\ twin' = Stores(Append(twin.container, doc), twin.stray, Append(twin.file, doc))
           /\ op_result' = Some(Both(doc, doc))
    /\ op_call' = Some(Call("create_schedule", body))
    /\ next_id' = next_id + 1
    /\ TwinFrame

\* PUT /api/schedules/{id} on both deployments: schedules_update.main reads and
\* writes db.json whichever backend is active
TwinUpdate(schedule_id, body) ==
    /\ twin' = Stores(twin.container,
                      UpdateInFile(twin.stray, schedule_id, "u1", body),
                      UpdateInFile(twin.file, schedule_id, "u1", body))
    /\ op_result' = Some(Both(UpdateStatus(twin.stray, schedule_id, "u1"),
                              UpdateStatus(twin.file, schedule_id, "u1")))
    /\ op_call' = Some(Call("schedules_update", [id |-> schedule_id, body |-> body]))
    /\ UNCHANGED next_id
    /\ TwinFrame

\* cosmos.get_schedule on both deployments
TwinGet(schedule_id) ==
    /\ op_result' = Some(Both(get_schedule(twin.container, schedule_id, "u1", FALSE),
                              get_schedule(twin.file, schedule_id, "u1", FALSE)))
    /\ op_call' = Some(Call("get_schedule", schedule_id))
    /\ UNCHANGED <<twin, next_id>>
    /\ TwinFrame

\* cosmos.list_due_schedules on both deployments
TwinListDue(now) ==
    /\ \E answer \in list_due_schedules_cosmos(twin.container, now, DueLimit) :
            op_result' = Some(Both(answer, list_due_schedules_local(twin.file, now, DueLimit)))
    /\ op_call' = Some(Call("list_due_schedules", now))
    /\ UNCHANGED <<twin, next_id>>
    /\ TwinFrame

\* cosmos.update_schedule_next_run on both deployments
TwinUpdateNextRun(schedule_id, next) ==
    /\ twin' = Stores(update_schedule_next_run(twin.container, schedule_id, "u1", next),
                      twin.stray,
                      update_schedule_next_run(twin.file, schedule_id, "u1", next))
    /\ op_result' = Some(Both(FirstMatch(twin.container, schedule_id, "u1") # 0,
                              FirstMatch(twin.file, schedule_id, "u1") # 0))
    /\ op_call' = Some(Call("update_schedule_next_run", [id |-> schedule_id, next |-> next]))
    /\ UNCHANGED next_id
    /\ TwinFrame

\* cosmos.delete_schedule on both deployments
TwinDelete(schedule_id) ==
    /\ LET on_cosmos == delete_schedule(twin.container, schedule_id, "u1", FALSE)
           on_local == delete_schedule(twin.file, schedule_id, "u1", FALSE)
       IN  /\ twin' = Stores(on_cosmos.docs, twin.stray, on_local.docs)
           /\ op_result' = Some(Both(on_cosmos.deleted, on_local.deleted))
    /\ op_call' = Some(Call("delete_schedule", schedule_id))
    /\ UNCHANGED next_id
    /\ TwinFrame

InitTwin ==
    /\ twin = Stores(<<>>, <<>>, <<>>)
    /\ op_call = None
    /\ op_result = None
    /\ tracked = <<>>
    /\ writers = <<>>
    /\ EmptyStore
    /\ IdleScanner
    /\ IdleRecurrence
    /\ IdleDueQuery
    /\ IdleSynth
    /\ IdleReports

NextTwin ==
    \/ \E body \in CreateBodies : TwinCreate(body)
    \/ \E schedule_id \in 1..MaxTwin, body \in TwinBodies : TwinUpdate(schedule_id, body)
    \/ \E schedule_id \in 1..MaxTwin : TwinGet(schedule_id)
    \/ \E t \in {clock, clock + 2 * SecondsPerDay} : TwinListDue(now_iso(t))
    \/ \E schedule_id \in 1..MaxTwin :
            TwinUpdateNextRun(schedule_id, now_iso(clock + SecondsPerDay))
    \/ \E schedule_id \in 1..MaxTwin : TwinDelete(schedule_id)

SpecTwin == InitTwin /\ [][NextTwin]_vars

\* C28: whatever requests were served, the two deployments gave the same answer
\* to the last one and their active stores hold the same schedules
BackendsInterchangeable ==
    /\ twin.container = twin.file
    /\ op_result # None => op_result[1].cosmos = op_result[1].local

\* ---------------------------------------------------------------------------
\* Store calls whose backend request fails
\* ---------------------------------------------------------------------------

MaxCreated == 3

\* cosmos.create_schedule: create_item is not guarded, its exception leaves the call
create_schedule(docs, doc, fails) ==
    IF use_cosmos /\ fails
    THEN [docs |-> docs, result |-> Raised]
    ELSE [docs |-> Append(docs, doc), result |-> Returned(doc)]

\* cosmos.update_schedule: False when there is none or (Cosmos) read_item or
\* replace_item raised
update_schedule(docs, schedule_id, user_id, updates, fails) ==
    IF use_cosmos /\ fails
    THEN [docs |-> docs, result |-> Returned(FALSE)]
    ELSE [docs |-> UpdateInFile(docs, schedule_id, user_id, updates),
          result |-> Returned(FirstMatch(docs, schedule_id, user_id) # 0)]

\* cosmos.update_schedule_next_run with its return value: False when there is
\* none or (Cosmos) read_item or replace_item raised
UpdateScheduleNextRun(docs, schedule_id, user_id, next, fails) ==
    IF use_cosmos /\ fails
    THEN [docs |-> docs, result |-> Returned(FALSE)]
    ELSE [docs |-> update_schedule_next_run(docs, schedule_id, user_id, next),
          result |-> Returned(FirstMatch(docs, schedule_id, user_id) # 0)]

StoreCallFrame ==
    UNCHANGED <<use_cosmos, tracked, writers, twin, clock, runs, orchs, sweep, scan_log,
                recVars, dueVars, synthVars, reportVars>>

\* one call of the store: the request in op_call, what the caller gets in op_result
StoreCall(name, arg, fails, after) ==
    /\ fails => use_cosmos
    /\ op_call' = Some(Call(name, [arg |-> arg, fails |-> fails]))
    /\ op_result' = Some(after.result)
    /\ schedules' = after.docs
    /\ StoreCallFrame

\* the request bodies of the create calls
StoreCallBodies == {body \in CreateBodies : body.active /\ body.recurrence.type = "daily"}

CallCreateSchedule(body, fails) ==
    /\ next_id <= MaxCreated
    /\ next_id' = next_id + 1
    /\ StoreCall("create_schedule", next_id, fails,
                 create_schedule(schedules,
                     ScheduleModel(next_id, "u1", body.symbols, body.recurrence, body.email,
                                   body.active,
                                   Some(compute_next_run_utc(body.recurrence, clock))),
                     fails))

CallGetSchedule(schedule_id, fails) ==
    /\ UNCHANGED next_id
    /\ StoreCall("get_schedule", schedule_id, fails,
                 [docs |-> schedules,
                  result |-> Returned(get_schedule(schedules, schedule_id, "u1", fails))])

CallGetReport(report_id, fails) ==
    /\ UNCHANGED next_id
    /\ StoreCall("get_report", report_id, fails,
                 [docs |-> schedules,
                  result |-> Returned(get_report(reports, report_id, "u1", fails))])

CallUpdateSchedule(schedule_id, updates, fails) ==
    /\ UNCHANGED next_id
    /\ StoreCall("update_schedule", schedule_id, fails,
                 update_schedule(schedules, schedule_id, "u1", updates, fails))

CallUpdateScheduleNextRun(schedule_id, next, fails) ==
    /\ UNCHANGED next_id
    /\ StoreCall("update_schedule_next_run", schedule_id, fails,
                 UpdateScheduleNextRun(schedules, schedule_id, "u1", next, fails))

CallDeleteSchedule(schedule_id, fails) ==
    /\ UNCHANGED next_id
    /\ LET removal == delete_schedule(schedules, schedule_id, "u1", fails)
       IN  StoreCall("delete_schedule", schedule_id, fails,
                     [docs |-> removal.docs, result |-> Returned(removal.deleted)])

InitStoreCalls ==
    /\ use_cosmos \in BOOLEAN
    /\ schedules = CascadeSchedules
    /\ reports = <<StoredReport(1, [runId |-> 1, scheduleId |-> 1, userId |-> "u1",
                                    attachPdf |-> FALSE],
                                Some(now_iso(FirstInstant)))>>
    /\ blobs = {}
    /\ response = None
    /\ clock = FirstInstant
    /\ next_id = 3
    /\ runs = <<>>
    /\ orchs = <<>>
    /\ sweep = IdleSweep
    /\ scan_log = <<>>
    /\ IdleRecurrence
    /\ IdleDueQuery
    /\ IdleSynth
    /\ IdleOps

NextStoreCalls ==
    \E fails \in BOOLEAN :
        \/ \E body \in StoreCallBodies : CallCreateSchedule(body, fails)
        \/ \E schedule_id \in 1..MaxCreated : CallGetSchedule(schedule_id, fails)
        \/ \E report_id \in 1..MaxCascade : CallGetReport(report_id, fails)
        \/ \E schedule_id \in 1..MaxCreated, updates \in TwinBodies :
                CallUpdateSchedule(schedule_id, updates, fails)
        \/ \E schedule_id \in 1..MaxCreated :
                CallUpdateScheduleNextRun(schedule_id, now_iso(clock + SecondsPerDay), fails)
        \/ \E schedule_id \in 1..MaxCreated : CallDeleteSchedule(schedule_id, fails)

SpecStoreCalls == InitStoreCalls /\ [][NextStoreCalls]_vars

ReadPaths == {"get_schedule", "get_report"}

\* C29: a store call whose backend request failed answers not-found on a read
\* path and raises on a write path
BackendErrorNotFoundOnReadRaisedOnWrite ==
    (op_call # None /\ op_call[1].arg.fails) =>
        IF op_call[1].name \in ReadPaths
        THEN op_result[1] = Returned(None)
        ELSE op_result[1].raised

\* ---------------------------------------------------------------------------
\* Instances writing to the Document Store at the same time
\* ---------------------------------------------------------------------------

MaxWriters == 2

\* what _ensure_store reads and _save_store writes: the whole of db.json
Db(s, r, p) == [schedules |-> s, runs |-> r, reports |-> p]

\* the writes of an instance i; uuid4 gives every created document its own id
WriteOps(i) ==
    {[kind |-> "create_run", id |-> i, updates |-> None],
     [kind |-> "save_report", id |-> i, updates |-> None]}
    \cup {[kind |-> "update_schedule_next_run", id |-> sid,
           updates |-> [nextRunAt |-> Some(now_iso(clock + i * SecondsPerDay))]] :
            sid \in {1, 2}}
    \cup {[kind |-> "update_schedule", id |-> 1, updates |-> [active |-> FALSE]]}

\* the document a write is about
Target(op) ==
    <<CASE op.kind = "create_run" -> "runs"
        [] op.kind = "save_report" -> "reports"
        [] OTHER -> "schedules", op.id>>

\* the write applied to a copy of the store
Apply(op, db) ==
    CASE op.kind = "create_run" ->
            [db EXCEPT !.runs = Append(@, RunDoc(op.id, 1, "u1"))]
      [] op.kind = "save_report" ->
            [db EXCEPT !.reports =
                Append(@, StoredReport(op.id, [runId |-> op.id, scheduleId |-> 1,
                                               userId |-> "u1", attachPdf |-> FALSE],
                                       Some(now_iso(clock))))]
      [] op.kind = "update_schedule_next_run" ->
            [db EXCEPT !.schedules =
                update_schedule_next_run(@, op.id, "u1", op.updates.nextRunAt[1])]
      [] OTHER ->
            [db EXCEPT !.schedules = UpdateInFile(@, op.id, "u1", op.updates)]

\* Cosmos create_item / replace_item: one item of the container is written, the
\* item of an update being the one read_item returned with the change applied
WriteItem(op, read, now) ==
    IF op.kind \in {"create_run", "save_report"}
    THEN Apply(op, now)
    ELSE LET k == FirstMatch(now.schedules, op.id, "u1")
         IN  [now EXCEPT !.schedules[k] = Apply(op, read).schedules[k]]

\* every write replaces the whole store by the writer's copy of it
CommitWholeStore(op, read, now) == Apply(op, read)

\* what the store holds once the write is committed: `read` is what the writer
\* loaded, `now` what the store holds at the moment of the write
Commit(op, read, now) ==
    IF use_cosmos THEN WriteItem(op, read, now) ELSE Apply(op, read)

IdleWriter == [pc |-> "idle", op |-> None, db |-> None]

WriterFrame ==
    UNCHANGED <<use_cosmos, tracked, op_call, op_result, twin, clock, next_id, orchs, sweep,
                scan_log, blobs, response, recVars, dueVars, synthVars>>

\* an instance starts a write: _ensure_store (local) or read_item (Cosmos)
Load(i, op) ==
    /\ writers[i].pc = "idle"
    /\ writers' = [writers EXCEPT ![i] =
                      [pc |-> "loaded", op |-> Some(op),
                       db |-> Some(Db(schedules, runs, reports))]]
    /\ UNCHANGED <<schedules, runs, reports>>
    /\ WriterFrame

\* the instance completes its write: _save_store (local) or create_item /
\* replace_item (Cosmos)
Save(i) ==
    /\ writers[i].pc = "loaded"
    /\ LET after == Commit(writers[i].op[1], writers[i].db[1], Db(schedules, runs, reports))
       IN  /\ schedules' = after.schedules
           /\ runs' = after.runs
           /\ reports' = after.reports
    /\ writers' = [writers EXCEPT ![i].pc = "done"]
    /\ WriterFrame

InitWriters ==
    /\ use_cosmos \in BOOLEAN
    /\ schedules = CascadeSchedules
    /\ runs = <<>>
    /\ reports = <<>>
    /\ blobs = {}
    /\ response = None
    /\ writers = [i \in 1..MaxWriters |-> IdleWriter]
    /\ tracked = <<>>
    /\ op_call = None
    /\ op_result = None
    /\ twin = None
    /\ clock = FirstInstant
    /\ next_id = 1
    /\ orchs = <<>>
    /\ sweep = IdleSweep
    /\ scan_log = <<>>
    /\ IdleRecurrence
    /\ IdleDueQuery
    /\ IdleSynth

NextWriters ==
    \E i \in 1..MaxWriters :
        \/ \E op \in WriteOps(i) : Load(i, op)
        \/ Save(i)

SpecWriters == InitWriters /\ [][NextWriters]_vars

\* the effect of a completed write is in the store
Present(op) ==
    CASE op.kind = "create_run" -> \E k \in 1..Len(runs) : runs[k].id = op.id
      [] op.kind = "save_report" -> \E k \in 1..Len(reports) : reports[k].id = op.id
      [] OTHER ->
            LET s == schedules[FirstMatch(schedules, op.id, "u1")]
            IN  \A f \in DOMAIN op.updates : s[f] = op.updates[f]

\* no other instance has started a write to the document of instance i's write
AloneOnDocument(i) ==
    \A j \in 1..MaxWriters \ {i} :
        writers[j].op # None => Target(writers[j].op[1]) # Target(writers[i].op[1])

WritesKept ==
    \A i \in 1..MaxWriters :
        (writers[i].pc = "done" /\ AloneOnDocument(i)) => Present(writers[i].op[1])

\* C30: the effect of every completed write is in the store unless another
\* instance writes to the same document
WritesToDifferentDocumentsKept == WritesKept

\* C30, amended: on the Cosmos backend the effect of every completed write is in
\* the store unless another instance writes to the same document
CosmosWritesToDifferentDocumentsKept == use_cosmos => WritesKept

\* two instances have written different schedules of the Cosmos container, the
\* second having read before the first wrote
ConcurrentCosmosWritesWitness ==
    /\ use_cosmos
    /\ writers[2].db # None /\ writers[2].db[1].schedules[1].active
    /\ \A i \in 1..MaxWriters : writers[i].pc = "done"
    /\ writers[1].op[1].kind = "update_schedule" /\ writers[1].op[1].id = 1
    /\ writers[2].op[1].kind = "update_schedule_next_run" /\ writers[2].op[1].id = 2
    /\ Present(writers[1].op[1]) /\ Present(writers[2].op[1])

\* ---------------------------------------------------------------------------
\* save_report executed again with the same input
\* ---------------------------------------------------------------------------

\* two stored Reports are of the same execution input
SameRun(a, b) ==
    /\ a.runId = b.runId
    /\ a.scheduleId = b.scheduleId
    /\ a.userId = b.userId
    /\ a.blobPaths = b.blobPaths

\* a successful execution of save_report follows a successful one with the same input
ReExecution ==
    /\ op_call # None /\ op_call' = op_call
    /\ ~op_result[1].raised /\ ~op_result'[1].raised
    /\ reports' # reports

\* C31: however often save_report ran with the same input, one Report document
\* is stored for the run
OneReportPerRun ==
    \A i, j \in 1..Len(reports) : SameRun(reports[i], reports[j]) => i = j

\* C31, amended: a re-execution of save_report with the same input stores one
\* more Report document for the run, under a new id, referencing the same blob
\* paths as the first, and uploads to the same blobs
ReExecutionAddsDuplicateReport ==
    [][ReExecution =>
        /\ Len(reports') = Len(reports) + 1
        /\ SubSeq(reports', 1, Len(reports)) = reports
        /\ SameRun(reports'[Len(reports')], reports[Len(reports)])
        /\ reports'[Len(reports')].id # reports[Len(reports)].id
        /\ op_result'[1].value.blobPaths = op_result[1].value.blobPaths
        /\ blobs' = blobs]_vars

\* save_report has run twice with the same input
SaveReportReExecutedWitness ==
    /\ Len(reports) = 2
    /\ SameRun(reports[1], reports[2])
    /\ reports[1].id # reports[2].id
    /\ op_call # None /\ op_call[1].name = "save_report"

\* ---------------------------------------------------------------------------
\* The deletion of one Report, call by call
\* ---------------------------------------------------------------------------

\* for k in ("md", "html", "pdf"): the keys the document's blobPaths has, in order
PresentKeys(blob_paths) ==
    SelectSeq(<<"md", "html", "pdf">>, LAMBDA k : k \in DOMAIN blob_paths)

\* the document is deleted before its blobs
DocumentFirst(blob_paths) == <<"doc">> \o PresentKeys(blob_paths)

\* the calls the three handlers make for one report: delete_blob for each path
\* of blobPaths, then delete_report
DeletionSteps(blob_paths) == PresentKeys(blob_paths) \o <<"doc">>

DeletionHandlers == {"reports_delete", "schedules_delete", "cleanup_reports"}

Deleting(handler, doc, steps) ==
    [pc |-> "deleting", op |-> Some([kind |-> handler, doc |-> doc, steps |-> steps]),
     db |-> None]

DeletionFrame ==
    UNCHANGED <<use_cosmos, schedules, tracked, twin, response, scanVars,
                recVars, dueVars, synthVars>>

\* a handler turns to a stored report: reports_delete after get_report, the
\* other two at the next report of their listing
BeginDeletion(handler, k) ==
    /\ writers[1].pc = "idle"
    /\ k \in 1..Len(reports)
    /\ writers' = <<Deleting(handler, reports[k], DeletionSteps(reports[k].blobPaths))>>
    /\ op_call' = Some(Call(handler, reports[k].id))
    /\ op_result' = None
    /\ UNCHANGED <<reports, blobs>>
    /\ DeletionFrame

\* the next call of the handler for the report: delete_blob, which returns False
\* when the deletion raised, or delete_report, whose failure (Cosmos) is returned
\* as None or swallowed by the handler's try
DeletionStep(fails) ==
    /\ writers[1].pc = "deleting"
    /\ LET op == writers[1].op[1]
           step == Head(op.steps)
       IN  /\ op.steps # <<>>
           /\ (fails /\ step = "doc") => use_cosmos
           /\ IF step = "doc"
              THEN /\ reports' = delete_report(reports, op.doc.id, op.doc.userId, fails).docs
                   /\ UNCHANGED blobs
              ELSE /\ blobs' = delete_blob(blobs, op.doc.blobPaths[step], fails)
                   /\ UNCHANGED reports
           /\ writers' = <<Deleting(op.kind, op.doc, Tail(op.steps))>>
           /\ op_result' = Some([step |-> step, ok |-> ~fails])
    /\ UNCHANGED op_call
    /\ DeletionFrame

\* the handler is through with the report
EndDeletion ==
    /\ writers[1].pc = "deleting"
    /\ writers[1].op[1].steps = <<>>
    /\ writers' = <<IdleWriter>>
    /\ UNCHANGED <<reports, blobs, op_call, op_result>>
    /\ DeletionFrame

InitDeletion ==
    /\ use_cosmos \in BOOLEAN
    /\ schedules = CascadeSchedules
    /\ reports \in CascadeReports
    /\ blobs = UNION {{reports[k].blobPaths[f] : f \in DOMAIN reports[k].blobPaths} :
                        k \in 1..Len(reports)}
    /\ response = None
    /\ writers = <<IdleWriter>>
    /\ tracked = <<>>
    /\ op_call = None
    /\ op_result = None
    /\ twin = None
    /\ clock = FirstInstant
    /\ next_id = 1
    /\ runs = <<>>
    /\ orchs = <<>>
    /\ sweep = IdleSweep
    /\ scan_log = <<>>
    /\ IdleRecurrence
    /\ IdleDueQuery
    /\ IdleSynth

NextDeletion ==
    \/ \E handler \in DeletionHandlers, k \in 1..MaxCascade : BeginDeletion(handler, k)
    \/ \E fails \in BOOLEAN : DeletionStep(fails)
    \/ EndDeletion

SpecDeletion == InitDeletion /\ [][NextDeletion]_vars

\* the document the handler is at is stored
Stored(doc) == \E k \in 1..Len(reports) : reports[k].id = doc.id /\ reports[k].userId = doc.userId

\* C32: when a Report document is removed no delete_blob call for it is still to
\* be made, and the delete_report call removes it whatever the delete_blob calls
\* before it returned
BlobsBeforeDocument ==
    [][writers[1].pc = "deleting" /\ writers'[1].pc = "deleting" =>
        LET doc == writers[1].op[1].doc
        IN  /\ (Stored(doc) /\ ~Stored(doc)') => writers'[1].op[1].steps = <<>>
            /\ (op_result'[1].step = "doc" /\ op_result'[1].ok) => ~Stored(doc)']_vars

\* a Report document was deleted after a delete_blob call for it had failed
DocumentDeletedAfterFailedBlobWitness ==
    /\ writers[1].pc = "deleting"
    /\ writers[1].op[1].steps = <<>>
    /\ ~Stored(writers[1].op[1].doc)
    /\ \E f \in DOMAIN writers[1].op[1].doc.blobPaths :
            writers[1].op[1].doc.blobPaths[f] \in blobs

\* ---------------------------------------------------------------------------
\* Polling an agent or assistant run for completion
\* ---------------------------------------------------------------------------

\* for _ in range(1200) of _synthesize_with_deep_research
DeepResearchPolls == 1200

\* for _ in range(60) of the Assistants path of _synthesize_with_agent
AssistantPolls == 60

PollBound(path) == IF path = "deep" THEN DeepResearchPolls ELSE AssistantPolls

RunStatuses == {"in_progress", "completed", "failed", "cancelled", "expired"}

\* the statuses the two loops raise on (the deep research loop also on
\* "timed_out" and "canceled")
FailedStatuses == {"failed", "cancelled", "expired"}

\* what the service can answer for a run last seen with this status
After(status) == IF status = "in_progress" THEN RunStatuses ELSE {status}

Polling(path, i, status, pc, text) ==
    [path |-> path, i |-> i, status |-> status, pc |-> pc, text |-> text]

PollFrame ==
    UNCHANGED <<synth_in, synth_out, failing_ids, recVars, dueVars, storeVars, scanVars,
                reportVars, opVars>>

\* runs.create: the run, and whether the thread will hold an assistant message
StartPoll(path, status, text) ==
    /\ IF poll = None THEN TRUE ELSE poll[1].pc \in {"raised", "returned"}
    /\ poll' = Some(Polling(path, 0, status, "poll", text))
    /\ PollFrame

\* one iteration of the deep research loop: look at run.status, then sleep and
\* runs.get
PollDeepResearch ==
    /\ poll # None
    /\ LET p == poll[1]
       IN  /\ p.path = "deep" /\ p.pc = "poll" /\ p.i < PollBound(p.path)
           /\ IF p.status = "completed"
              THEN poll' = Some(Polling(p.path, p.i, p.status, "collect", p.text))
              ELSE IF p.status \in FailedStatuses
              THEN poll' = Some(Polling(p.path, p.i, p.status, "raised", p.text))
              ELSE \E s \in After(p.status) :
                      poll' = Some(Polling(p.path, p.i + 1, s, "poll", p.text))
    /\ PollFrame

\* one iteration of the Assistants loop: runs.retrieve, look at run.status, sleep
PollAssistant ==
    /\ poll # None
    /\ LET p == poll[1]
       IN  /\ p.path = "assistant" /\ p.pc = "poll" /\ p.i < PollBound(p.path)
           /\ \E s \in After(p.status) :
                poll' = Some(IF s = "completed"
                             THEN Polling(p.path, p.i, s, "collect", p.text)
                             ELSE IF s \in FailedStatuses
                             THEN Polling(p.path, p.i, s, "raised", p.text)
                             ELSE Polling(p.path, p.i + 1, s, "poll", p.text))
    /\ PollFrame

\* range(...) is used up: the loop ends and the function goes on
PollExhausted ==
    /\ poll # None
    /\ poll[1].pc = "poll" /\ poll[1].i = PollBound(poll[1].path)
    /\ poll' = Some([poll[1] EXCEPT !.pc = "collect"])
    /\ PollFrame

\* after the loop: the assistant text of the thread becomes the report; the
\* function raises when there is none
Collect ==
    /\ poll # None
    /\ poll[1].pc = "collect"
    /\ poll' = Some([poll[1] EXCEPT !.pc = IF poll[1].text THEN "returned" ELSE "raised"])
    /\ PollFrame

InitPoll ==
    /\ poll = None
    /\ failing_ids = {}
    /\ synth_in = None
    /\ synth_out = None
    /\ IdleRecurrence
    /\ IdleDueQuery
    /\ EmptyStore
    /\ IdleScanner
    /\ IdleReports
    /\ IdleOps

NextPoll ==
    \/ \E path \in {"deep", "assistant"}, text \in BOOLEAN :
            StartPoll(path, "in_progress", text)
    \/ PollDeepResearch
    \/ PollAssistant
    \/ PollExhausted
    \/ Collect

SpecPoll == InitPoll /\ [][NextPoll]_vars

\* C33: a polling loop makes no more iterations than its bound, and a synthesis
\* path that got past its loop, or built a report, did not last see the run
\* failed, cancelled or expired
PollingBoundedAndFailureRaises ==
    poll # None =>
        /\ poll[1].i <= PollBound(poll[1].path)
        /\ poll[1].pc \in {"collect", "returned"} => poll[1].status \notin FailedStatuses

\* ---------------------------------------------------------------------------
\* Sweep after sweep over more due schedules than one sweep takes up
\* ---------------------------------------------------------------------------

\* the limit of the due query in the sweeps of a small fleet: it stands for the
\* limit=50 of due_scheduler.main, scaled down with the number of schedules
SweepLimit == 2

\* the schedules of the fleet: one more than a sweep takes up
Fleet == {1, 2, 3}

SweepsInstant == SecondsPerDay + NineOClock

\* schedule k became due 10 - k minutes ago: schedule 1 is the most overdue
FleetSchedule(k) ==
    ScheduleModel(k, "u1", <<"AAPL">>, Rec("hours", None, None, Some(1)),
                  EmailSettings(<<>>, FALSE), TRUE,
                  Some(now_iso(SweepsInstant - (10 - k) * SecondsPerMinute)))

\* the body of the scanner's loop for the next due schedule: create_run,
\* start_new, update_schedule_next_run; `except Exception: continue` when
\* create_run raises
SweepItem ==
    /\ sweep.pc = "loop"
    /\ sweep.due # <<>>
    /\ LET sched == Head(sweep.due)
           run_doc == RunDoc(next_id, sched.id, sched.userId)
       IN  IF sched.id \in failing_ids
           THEN /\ sweep' = [sweep EXCEPT !.due = ContinueAfterError(Tail(sweep.due))]
                /\ UNCHANGED <<runs, next_id, orchs, schedules>>
           ELSE /\ runs' = Append(runs, run_doc)
                /\ next_id' = next_id + 1
                /\ orchs' = Append(orchs, NewInstance(ScannerOrchInput(sched, run_doc)))
                /\ schedules' = update_schedule_next_run(schedules, sched.id, sched.userId,
                                    compute_next_run_utc(sched.recurrence,
                                                         NextRunAnchor(sched, clock)))
                /\ sweep' = [sweep EXCEPT !.due = Tail(sweep.due)]
    /\ UNCHANGED <<use_cosmos, clock, scan_log, recVars, dueVars, synthVars, reportVars, opVars>>

InitSweeps ==
    /\ use_cosmos \in BOOLEAN
    /\ schedules = [k \in 1..Cardinality(Fleet) |-> FleetSchedule(k)]
    /\ failing_ids \in SUBSET Fleet
    /\ clock = SweepsInstant
    /\ next_id = 1
    /\ runs = <<>>
    /\ orchs = <<>>
    /\ sweep = IdleSweep
    /\ scan_log = <<>>
    /\ synth_in = None
    /\ synth_out = None
    /\ poll = None
    /\ IdleRecurrence
    /\ IdleDueQuery
    /\ IdleReports
    /\ IdleOps

NextSweeps ==
    \/ SweepStartWith(SweepLimit)
    \/ SweepItem
    \/ SweepEnd

\* the timer starts sweep after sweep, and a sweep goes on to its end
SpecSweeps == InitSweeps /\ [][NextSweeps]_vars /\ WF_vars(NextSweeps)

\* every schedule whose Run can be created has been launched
AllHealthyLaunched ==
    \A k \in Fleet \ failing_ids : \E i \in 1..Len(orchs) : orchs[i].input.scheduleId = k

NextRunSaved(i) ==
    /\ writers[i].pc = "loaded" /\ writers'[i].pc = "done"
    /\ writers[i].op[1].kind = "update_schedule_next_run"

OtherFields(doc) == DOMAIN doc \ {"nextRunAt"}

\* C35: the write of update_schedule_next_run leaves every field but nextRunAt
\* with the value the store held right before it
NextRunWriteChangesOnlyNextRunAt ==
    [][\A i \in 1..MaxWriters : NextRunSaved(i) =>
            \A k \in 1..Len(schedules) : \A f \in OtherFields(schedules[k]) :
                schedules'[k][f] = schedules[k][f]]_vars

\* C35, amended: the write of update_schedule_next_run sets nextRunAt and gives
\* every other field of the schedule the value the call read, which is the
\* stored one unless another write to the schedule came in between
NextRunWriteKeepsFieldsAsRead ==
    [][\A i \in 1..MaxWriters : NextRunSaved(i) =>
            LET op == writers[i].op[1]
                k == FirstMatch(schedules, op.id, "u1")
                read == writers[i].db[1].schedules[k]
            IN  /\ schedules'[k].nextRunAt = op.updates.nextRunAt
                /\ \A f \in OtherFields(schedules[k]) : schedules'[k][f] = read[f]
                /\ read = schedules[k] =>
                        \A f \in OtherFields(schedules[k]) : schedules'[k][f] = schedules[k][f]]_vars

\* an update_schedule_next_run that had read the schedule before a concurrent
\* update_schedule wrote active = false has written it back active
ActiveRevertedWitness ==
    /\ writers[1].pc = "done" /\ writers[1].op[1].kind = "update_schedule"
    /\ writers[2].pc = "done" /\ writers[2].op[1].kind = "update_schedule_next_run"
    /\ writers[2].op[1].id = 1
    /\ schedules[1].active
    /\ schedules[1].nextRunAt = writers[2].op[1].updates.nextRunAt

\* ---------------------------------------------------------------------------
\* Runs and the orchestrations launched for them
\* ---------------------------------------------------------------------------

\* the scanner has created this Run and is about to call start_new for it
AboutToLaunch(run_doc) == sweep.pc = "start_new" /\ sweep.run_doc = Some(run_doc)

\* C36: every queued Run has an orchestration that was started with its id, or
\* the handler that created it is just about to start one
NoOrphanRun ==
    \A i \in 1..Len(runs) :
        runs[i].status = "queued" =>
            \/ Launched(runs[i].scheduleId, runs[i].id)
            \/ AboutToLaunch(runs[i])

\* ---------------------------------------------------------------------------
\* Schedule deletion while a sweep or an orchestration works on the schedule
\* ---------------------------------------------------------------------------

\* the save_report activity of a launched orchestration that has not saved yet;
\* the store stamps the document with createdAt
InFlightSave(i, failure) ==
    /\ next_id <= MaxIds
    /\ orchs[i].status = "Pending"
    /\ LET inp == orchs[i].input
           input == SaveInput(inp.runId, inp.scheduleId, inp.userId, inp.attachPdf)
           run == save_report_main(input, failure, next_id, reports, blobs)
       IN  /\ failure = "pdf" => input.attachPdf
           /\ blobs' = run.blobs
           /\ reports' = IF failure = "none"
                         THEN cosmos_save_report(reports,
                                  StoredReport(next_id, input, Some(now_iso(clock))))
                         ELSE reports
           /\ next_id' = IF failure = "none" THEN next_id + 1 ELSE next_id
           /\ orchs' = [orchs EXCEPT ![i].status =
                            IF failure = "none" THEN "Completed" ELSE "Failed"]
    /\ UNCHANGED <<response, storeVars, clock, runs, sweep, scan_log,
                   recVars, dueVars, synthVars, opVars>>

\* both schedules are due; nothing has run yet
InitInFlight ==
    /\ use_cosmos \in BOOLEAN
    /\ schedules = CascadeSchedules
    /\ clock = SweepsInstant
    /\ next_id = 1
    /\ runs = <<>>
    /\ orchs = <<>>
    /\ sweep = IdleSweep
    /\ scan_log = <<>>
    /\ IdleReports
    /\ IdleRecurrence
    /\ IdleDueQuery
    /\ IdleSynth
    /\ IdleOps

\* sweeps start as long as fewer than MaxInFlight Runs are stored
MaxInFlight == 1

NextInFlight ==
    \/ Len(runs) < MaxInFlight /\ SweepStart
    \/ \E fail \in BOOLEAN : ItemCreateRun(fail)
    \/ \E fail \in BOOLEAN : ItemStartNew(fail)
    \/ \E fail \in BOOLEAN : ItemUpdateNextRun(fail)
    \/ SweepEnd
    \/ \E i \in 1..Len(orchs), failure \in SaveFailures : InFlightSave(i, failure)
    \/ \E schedule_id \in {1, 2} : SchedulesDelete(Some(schedule_id), "u1", NoFailure)

SpecInFlight == InitInFlight /\ [][NextInFlight]_vars

\* the last schedule-delete request completed with the schedule deleted
DeleteCompleted == response # None /\ response[1].status = 200

\* C37: once a schedule-delete has completed, no Report and no Run of that
\* schedule and user is stored
NothingLeftAfterScheduleDelete ==
    DeleteCompleted =>
        LET schedule_id == response[1].schedule_id[1]
            user_id == response[1].user_id
        IN  /\ \A k \in 1..Len(reports) :
                  ~(reports[k].scheduleId = schedule_id /\ reports[k].userId = user_id)
            /\ \A k \in 1..Len(runs) :
                  ~(runs[k].scheduleId = schedule_id /\ runs[k].userId = user_id)

\* ---------------------------------------------------------------------------
\* Two callers of create_tracked_stock at the same time
\* ---------------------------------------------------------------------------

\* the callers: two orchestrations' _auto_track_stocks, or one and the handler
Callers == {1, 2}

RaceInputs ==
    {[userId |-> "u1", symbol |-> "AAPL", reportId |-> Some(r), recommendationDate |-> d] :
        r \in {"r1", "r2"}, d \in 1..2}

IdleCaller == [pc |-> "idle", stock |-> None, existing |-> None]

RaceFrame ==
    UNCHANGED <<op_call, op_result, twin, use_cosmos, schedules, clock, runs, orchs, sweep,
                scan_log, recVars, dueVars, synthVars, reportVars>>

\* create_tracked_stock(stock) is called
BeginCreate(i, stock) ==
    /\ writers[i].pc = "idle"
    /\ writers' = [writers EXCEPT ![i] = [pc |-> "called", stock |-> Some(stock),
                                          existing |-> None]]
    /\ UNCHANGED <<tracked, next_id>>
    /\ RaceFrame

\* existing = get_tracked_stock_by_symbol(stock.userId, stock.symbol, stock.reportId)
LookupExisting(i) ==
    /\ writers[i].pc = "called"
    /\ LET stock == writers[i].stock[1]
       IN  \E existing \in get_tracked_stock_by_symbol(tracked, stock.userId, stock.symbol,
                                                       stock.reportId) :
              writers' = [writers EXCEPT ![i].pc = "looked", ![i].existing = existing]
    /\ UNCHANGED <<tracked, next_id>>
    /\ RaceFrame

\* the rest of create_tracked_stock: return the existing entry, or delete it and
\* store the new one
StoreTracked(i) ==
    /\ writers[i].pc = "looked"
    /\ next_id <= MaxTracked
    /\ LET stock == writers[i].stock[1]
           existing == writers[i].existing
           data == TrackedStockDoc(next_id, stock.userId, stock.symbol, stock.reportId,
                                   stock.recommendationDate)
       IN  IF existing # None /\ KeepsExisting(existing[1], stock)
           THEN UNCHANGED <<tracked, next_id>>
           ELSE /\ tracked' = Append(
                       IF existing = None THEN tracked
                       ELSE delete_tracked_stock(tracked, existing[1].id, stock.userId,
                                                 FALSE).docs,
                       data)
                /\ next_id' = next_id + 1
    /\ writers' = [writers EXCEPT ![i].pc = "done"]
    /\ RaceFrame

InitRace ==
    /\ use_cosmos \in BOOLEAN
    /\ schedules = <<>>
    /\ IdleScanner
    /\ IdleRecurrence
    /\ IdleDueQuery
    /\ IdleSynth
    /\ IdleReports
    /\ tracked = <<>>
    /\ op_call = None
    /\ op_result = None
    /\ twin = None
    /\ writers = [i \in Callers |-> IdleCaller]

NextRace ==
    \/ \E i \in Callers, stock \in RaceInputs : BeginCreate(i, stock)
    \/ \E i \in Callers : LookupExisting(i)
    \/ \E i \in Callers : StoreTracked(i)

SpecRace == InitRace /\ [][NextRace]_vars

\* C38: when the calls have returned, the store holds at most one TrackedStock
\* per (userId, symbol, reportId), with the earliest recommendationDate that was
\* given for the key
DedupUnderConcurrency ==
    (\A i \in Callers : writers[i].pc = "done") =>
        /\ \A a, b \in 1..Len(tracked) : SameKey(tracked[a], tracked[b]) => a = b
        /\ \A a \in 1..Len(tracked) : \A i \in Callers :
              SameKey(tracked[a], writers[i].stock[1]) =>
                  tracked[a].recommendationDate <= writers[i].stock[1].recommendationDate

\* ---------------------------------------------------------------------------
\* save_report: the artifacts are uploaded before the document is written
\* ---------------------------------------------------------------------------

Referenced(doc) == {doc.blobPaths[k] : k \in DOMAIN doc.blobPaths}

\* C39: when a Report document is created, every blob path it references has been
\* uploaded; an execution of save_report that raised has created no document
UploadBeforePersist ==
    [][/\ Len(reports') > Len(reports) =>
             /\ Len(reports') = Len(reports) + 1
             /\ Referenced(reports'[Len(reports')]) \subseteq blobs'
       /\ (op_result' = Some(Raised) /\ op_call'[1].name = "save_report") =>
             reports' = reports]_vars

\* one execution stored its Report with all artifacts; a later one, for another
\* run, raised after its first upload and has left a blob but no document
UploadFailedNoDocumentWitness ==
    /\ op_result = Some(Raised)
    /\ Len(reports) = 1
    /\ Referenced(reports[1]) \subseteq blobs
    /\ \E path \in blobs : path[3] # reports[1].runId

\* ---------------------------------------------------------------------------
\* The owner-scoped calls of the store on documents of two users
\* ---------------------------------------------------------------------------

OwnedBy(docs, user_id) == SelectSeq(docs, LAMBDA d : d.userId = user_id)

NotOwnedBy(docs, user_id) == SelectSeq(docs, LAMBDA d : d.userId # user_id)

\* limit=100 of list_schedules_for_user and list_tracked_stocks_for_user
ListLimit == 100

\* limit=50 of list_reports_for_user
ReportListLimit == 50

\* cosmos.list_schedules_for_user: the user's schedules, newest createdAt first,
\* up to limit; the schedules of the model carry no createdAt, and the stable
\* sort leaves such documents in stored order
list_schedules_for_user(docs, user_id, limit) == Take(OwnedBy(docs, user_id), limit)

\* cosmos.list_tracked_stocks_for_user: the user's entries by symbol, up to
\* limit; the entries of the model have one symbol, the sort keeps their order
list_tracked_stocks_for_user(docs, user_id, limit) == Take(OwnedBy(docs, user_id), limit)

Range(seq) == {seq[k] : k \in 1..Len(seq)}

\* what a call hands back: whether it found something, and the documents in its
\* return value
Answer(found, docs) == [found |-> found, docs |-> docs]

FromOption(x) == Answer(x # None, Range(x))

IsolationFrame ==
    UNCHANGED <<use_cosmos, writers, twin, clock, next_id, orchs, sweep, scan_log, blobs,
                response, recVars, dueVars, synthVars>>

\* one call with user_id and the id (or scheduleId) it names
OwnerCall(name, user_id, id, answer) ==
    /\ op_call' = Some(Call(name, [userId |-> user_id, id |-> id]))
    /\ op_result' = Some(answer)
    /\ IsolationFrame

IsoGetSchedule(user_id, id) ==
    /\ OwnerCall("get_schedule", user_id, id,
                 FromOption(get_schedule(schedules, id, user_id, FALSE)))
    /\ UNCHANGED <<schedules, runs, reports, tracked>>

IsoListSchedules(user_id) ==
    /\ OwnerCall("list_schedules_for_user", user_id, None,
                 LET items == list_schedules_for_user(schedules, user_id, ListLimit)
                 IN  Answer(items # <<>>, Range(items)))
    /\ UNCHANGED <<schedules, runs, reports, tracked>>

IsoUpdateSchedule(user_id, id) ==
    LET after == update_schedule(schedules, id, user_id, [active |-> FALSE], FALSE)
    IN  /\ OwnerCall("update_schedule", user_id, id, Answer(after.result.value, {}))
        /\ schedules' = after.docs
        /\ UNCHANGED <<runs, reports, tracked>>

IsoUpdateNextRun(user_id, id) ==
    LET after == UpdateScheduleNextRun(schedules, id, user_id,
                                       now_iso(SweepsInstant + SecondsPerDay), FALSE)
    IN  /\ OwnerCall("update_schedule_next_run", user_id, id, Answer(after.result.value, {}))
        /\ schedules' = after.docs
        /\ UNCHANGED <<runs, reports, tracked>>

IsoDeleteSchedule(user_id, id) ==
    LET after == delete_schedule(schedules, id, user_id, FALSE)
    IN  /\ OwnerCall("delete_schedule", user_id, id, Answer(after.deleted, {}))
        /\ schedules' = after.docs
        /\ UNCHANGED <<runs, reports, tracked>>

IsoDeleteRuns(user_id, id) ==
    LET after == delete_runs_for_schedule(runs, id, user_id, NoFailure)
    IN  /\ OwnerCall("delete_runs_for_schedule", user_id, id,
                     Answer(Len(after) < Len(runs), {}))
        /\ runs' = after
        /\ UNCHANGED <<schedules, reports, tracked>>

IsoGetReport(user_id, id) ==
    /\ OwnerCall("get_report", user_id, id, FromOption(get_report(reports, id, user_id, FALSE)))
    /\ UNCHANGED <<schedules, runs, reports, tracked>>

IsoListReports(user_id, id) ==
    /\ OwnerCall("list_reports_for_user", user_id, id,
                 LET items == list_reports_for_user(reports, user_id, id, ReportListLimit)
                 IN  Answer(items # <<>>, Range(items)))
    /\ UNCHANGED <<schedules, runs, reports, tracked>>

IsoDeleteReport(user_id, id) ==
    LET after == delete_report(reports, id, user_id, FALSE)
    IN  /\ OwnerCall("delete_report", user_id, id, FromOption(after.deleted))
        /\ reports' = after.docs
        /\ UNCHANGED <<schedules, runs, tracked>>

IsoGetTracked(user_id, id) ==
    /\ \E existing \in get_tracked_stock_by_symbol(tracked, user_id, "AAPL", Some("r1")) :
            OwnerCall("get_tracked_stock_by_symbol", user_id, id, FromOption(existing))
    /\ UNCHANGED <<schedules, runs, reports, tracked>>

IsoListTracked(user_id) ==
    /\ OwnerCall("list_tracked_stocks_for_user", user_id, None,
                 LET items == list_tracked_stocks_for_user(tracked, user_id, ListLimit)
                 IN  Answer(items # <<>>, Range(items)))
    /\ UNCHANGED <<schedules, runs, reports, tracked>>

IsoDeleteTracked(user_id, id) ==
    LET after == delete_tracked_stock(tracked, id, user_id, FALSE)
    IN  /\ OwnerCall("delete_tracked_stock", user_id, id, Answer(after.deleted, {}))
        /\ tracked' = after.docs
        /\ UNCHANGED <<schedules, runs, reports>>

\* the ids a call can name: 1 is the id of a document of each user, 2 of none
IsoIds == {1, 2}

IsoSchedule(user_id) ==
    ScheduleModel(1, user_id, <<"AAPL">>, Rec("daily", Some(9), None, None),
                  EmailSettings(<<>>, FALSE), TRUE, Some(now_iso(SweepsInstant)))

IsoReport(user_id) ==
    StoredReport(1, [runId |-> 1, scheduleId |-> 1, userId |-> user_id, attachPdf |-> FALSE],
                 Some(now_iso(SweepsInstant)))

Collections == {"schedules", "runs", "reports", "tracked_stocks"}

\* the documents a collection starts with: one of each user, with the same id
\* and scheduleId
IsoDocs(collection) ==
    CASE collection = "schedules" -> <<IsoSchedule("u1"), IsoSchedule("u2")>>
      [] collection = "runs" -> <<RunDoc(1, 1, "u1"), RunDoc(1, 1, "u2")>>
      [] collection = "reports" -> <<IsoReport("u1"), IsoReport("u2")>>
      [] OTHER -> <<TrackedStockDoc(1, "u1", "AAPL", Some("r1"), 1),
                    TrackedStockDoc(1, "u2", "AAPL", Some("r1"), 1)>>

\* one or two of the collections hold documents, the others are empty
InitIsolation ==
    /\ use_cosmos \in BOOLEAN
    /\ \E filled \in {c \in SUBSET Collections : Cardinality(c) \in {1, 2}} :
          /\ schedules = IF "schedules" \in filled THEN IsoDocs("schedules") ELSE <<>>
          /\ runs = IF "runs" \in filled THEN IsoDocs("runs") ELSE <<>>
          /\ reports = IF "reports" \in filled THEN IsoDocs("reports") ELSE <<>>
          /\ tracked = IF "tracked_stocks" \in filled THEN IsoDocs("tracked_stocks") ELSE <<>>
    /\ blobs = {}
    /\ response = None
    /\ clock = 0
    /\ next_id = 1
    /\ orchs = <<>>
    /\ sweep = IdleSweep
    /\ scan_log = <<>>
    /\ op_call = None
    /\ op_result = None
    /\ writers = <<>>
    /\ twin = None
    /\ IdleRecurrence
    /\ IdleDueQuery
    /\ IdleSynth

NextIsolation ==
    \/ \E user_id \in Users, id \in IsoIds : IsoGetSchedule(user_id, id)
    \/ \E user_id \in Users : IsoListSchedules(user_id)
    \/ \E user_id \in Users, id \in IsoIds : IsoUpdateSchedule(user_id, id)
    \/ \E user_id \in Users, id \in IsoIds : IsoUpdateNextRun(user_id, id)
    \/ \E user_id \in Users, id \in IsoIds : IsoDeleteSchedule(user_id, id)
    \/ \E user_id \in Users, id \in IsoIds : IsoDeleteRuns(user_id, id)
    \/ \E user_id \in Users, id \in IsoIds : IsoGetReport(user_id, id)
    \/ \E user_id \in Users, id \in IsoIds : IsoListReports(user_id, id)
    \/ \E user_id \in Users, id \in IsoIds : IsoDeleteReport(user_id, id)
    \/ \E user_id \in Users, id \in IsoIds : IsoGetTracked(user_id, id)
    \/ \E user_id \in Users : IsoListTracked(user_id)
    \/ \E user_id \in Users, id \in IsoIds : IsoDeleteTracked(user_id, id)

SpecIsolation == InitIsolation /\ [][NextIsolation]_vars

\* the collection a call works on
CollectionOf(name) ==
    CASE name \in {"get_schedule", "list_schedules_for_user", "update_schedule",
                   "update_schedule_next_run", "delete_schedule"} -> schedules
      [] name = "delete_runs_for_schedule" -> runs
      [] name \in {"get_report", "list_reports_for_user", "delete_report"} -> reports
      [] OTHER -> tracked

\* the caller owns a document the call names: by scheduleId for the runs and the
\* report list, by symbol and reportId for the tracked-stock lookup, by id else
Names(name, id, doc) ==
    CASE name \in {"list_schedules_for_user", "list_tracked_stocks_for_user",
                   "get_tracked_stock_by_symbol"} -> TRUE
      [] name \in {"delete_runs_for_schedule", "list_reports_for_user"} -> doc.scheduleId = id
      [] OTHER -> doc.id = id

OwnsNamed(name, user_id, id) ==
    \E k \in 1..Len(CollectionOf(name)) :
        /\ CollectionOf(name)[k].userId = user_id
        /\ Names(name, id, CollectionOf(name)[k])

\* C40: a call made with user U returns only documents of U, leaves the
\* documents of every other user as they are, and answers not-found with
\* nothing changed when U owns no document the call names, also when another
\* user's document has that id or scheduleId
OwnerScopedCallsIsolated ==
    [][LET c == op_call'[1]
           U == c.arg.userId
       IN  /\ \A d \in op_result'[1].docs : d.userId = U
           /\ NotOwnedBy(schedules', U) = NotOwnedBy(schedules, U)
           /\ NotOwnedBy(runs', U) = NotOwnedBy(runs, U)
           /\ NotOwnedBy(reports', U) = NotOwnedBy(reports, U)
           /\ NotOwnedBy(tracked', U) = NotOwnedBy(tracked, U)
           /\ ~OwnsNamed(c.name, U, c.arg.id) =>
                 /\ ~op_result'[1].found
                 /\ op_result'[1].docs = {}
                 /\ <<schedules', runs', reports', tracked'>> =
                        <<schedules, runs, reports, tracked>>]_vars

\* u1 has deleted the schedule with id 1 and then asked for it: not found, while
\* the schedule of u2 with the same id is still stored
OtherUsersDocumentKeptWitness ==
    /\ op_call = Some(Call("get_schedule", [userId |-> "u1", id |-> 1]))
    /\ ~op_result[1].found
    /\ schedules = <<IsoSchedule("u2")>>

====
